---- MODULE Spec2Model ----
(***************************************************************************)
(* Verification model of the exam-recovery pipeline of                     *)
(* See-137/psychometric-trainer (scripts/improved-parser.cjs and           *)
(* scripts/official-parser.cjs).                                           *)
(*                                                                         *)
(* Each component is a specification of its own over the shared variables: *)
(*   SpecKey    parseAnswerKey, one step per scanned line                  *)
(*   SpecClean  cleanText applied once and twice to a bounded string       *)
(*   SpecSeg    the section boundaries of extractHebrewSection             *)
(*   SpecMerge  the per-question merge of parseExam                        *)
(* The variables of the other components stay parked at their initial      *)
(* value while one component runs.                                         *)
(***************************************************************************)
EXTENDS Integers, Sequences, FiniteSets, TLC

VARIABLES
    \* ---- parseAnswerKey (improved-parser.cjs:48-133)
    kpc,               \* "start" | "scan" | "done"
    lineNo,            \* number of lines of keySection scanned so far (i)
    line,              \* the line scanned by the last step
    currentSection,    \* section key or Null
    questionNumbers,   \* None or Some(sequence of numbers)
    collectedAnswers,  \* sequence of digits
    answerKey,         \* section key -> (question number -> answer)
    dropped,           \* history: sections for which saveAnswers skipped a digit
    hist,              \* history: the rows of the current section of the text
    \* ---- cleanText (improved-parser.cjs:21-33)
    cpc,               \* "input" | "once" | "twice"
    cin,               \* the text handed to cleanText
    npieces,           \* number of pieces cin was built from
    cout1,             \* cleanText(cin)
    cout2,             \* cleanText(cleanText(cin))
    \* ---- section boundaries (improved-parser.cjs:244-275, 434-462)
    spc,               \* "build" | "segment" | "done"
    examText,          \* the exam text, a sequence of tokens
    sidx,              \* index in SECTION_ORDER of the next section to cut
    boundary,          \* section index -> [found, start, end] computed so far
    \* ---- parseExam (improved-parser.cjs:689-830, official-parser.cjs:181-276)
    mpc,               \* "section" | "question" | "done"
    script,            \* "improved" | "official": which script runs
    mKey,              \* the answerKey parseAnswerKey returned
    defIdx,            \* index in sectionDefs of the section being merged
    qPos,              \* index in questionNums of the next question
    examNums,          \* question numbers with a block in extractedQuestions
    lastIn,            \* what the extractors returned for the last question
    allQuestions,      \* the questions pushed so far
    examDoc,           \* None or the exam object parseExam built
    \* ---- the run of improved-parser.cjs (improved-parser.cjs:839-871)
    rpc,               \* "loop" | "done"
    runIdx,            \* index in exams of the next exam
    results,           \* the entries pushed for index.json
    written,           \* ids of the exam files written
    runLog,            \* history: per exam, what parseExam was given and returned
    indexFile,         \* None or the object written to index.json
    \* ---- the extractors (improved-parser.cjs:244-611)
    xpc,               \* "scan" | "extracted" | "merged"
    xlang,             \* "hebrew" | "english" | "solution": which extractor runs
    xlines,            \* history: the lines (or solution blocks) scanned so far
    scan,              \* the locals of the extractor: currentQ, stemLines, options, ...
    xAnswers,          \* the answers of the section in the answer key
    blocks,            \* the blocks handed to the merge (after postProcessQuestions)
    merged,            \* question number -> the question parseExam pushed
    \* ---- the session store (src/stores/sessionStore.ts)
    store,             \* the state of the store, a record of the fields of SessionState
    mockBookmarks,     \* the bookmarked ids held by the database
    calls,             \* the toggleBookmark calls in flight, oldest first
    lastOp,            \* history: the handler that completed last
    \* ---- convertParsedExamToAppFormat (src/services/sentry.ts)
    vpc,               \* where the load is: "idle", "document" or "converted"
    parsedExam,        \* the fetched document: id, name, questions
    appExam,           \* None, or Some(the Exam the conversion returned)
    \* ---- exam loading at app start (App, src/stores/examStore.ts)
    lpc,               \* where loadFromJSON is: "off", "idle" or "fetching"
    examState,         \* the exam store: exams, isLoaded, isLoading, loadError
    fetchIdx,          \* index in AVAILABLE_EXAMS of the exam being awaited
    allExams,          \* the local allExams of loadFromJSON
    effectDue,         \* the effect of App has to run: mount, or a dependency changed
    loadStarts,        \* history: calls of loadFromJSON so far, counted up to MaxStarts
    \* ---- the sessions table of the database and the calls finishing a session
    sessions,          \* db.sessions: the record stored under each session id
    curId,             \* history: the id of store.currentSession, 0 without one
    finishing,         \* calls of completeSession and abandonSession awaiting saveSession
    \* ---- the session page (src/unnamed/part_003) and its Timer (src/unnamed/part_005)
    remainingSeconds,  \* the remainingSeconds of the Timer of the page
    \* ---- the solution extractors: extractFromSolution and extractExplanations
    solScript,         \* the script that runs: "improved" or "official"
    solText,           \* history: the blocks of the solution text read so far
    explanations,      \* the explanations object of the extractor
    solQuestions       \* the questions object of extractFromSolution

keyVars == <<kpc, lineNo, line, currentSection, questionNumbers,
             collectedAnswers, answerKey, dropped, hist>>
cleanVars == <<cpc, cin, npieces, cout1, cout2>>

segVars == <<spc, examText, sidx, boundary>>

mergeVars == <<mpc, script, mKey, defIdx, qPos, examNums, lastIn, allQuestions,
               examDoc>>

runVars == <<rpc, runIdx, results, written, runLog, indexFile>>

extractVars == <<xpc, xlang, xlines, scan, xAnswers, blocks, merged>>

storeVars == <<store, mockBookmarks, calls, lastOp>>

converterVars == <<vpc, parsedExam, appExam>>

loaderVars == <<lpc, examState, fetchIdx, allExams, effectDue, loadStarts>>

finishVars == <<sessions, curId, finishing>>

pageVars == <<remainingSeconds>>

solVars == <<solScript, solText, explanations, solQuestions>>

vars == <<keyVars, cleanVars, segVars, mergeVars, runVars, extractVars, storeVars, converterVars, loaderVars, finishVars, pageVars, solVars>>
notKeyVars == <<cleanVars, segVars, mergeVars, runVars, extractVars, storeVars, converterVars, loaderVars, finishVars, pageVars, solVars>>
notCleanVars == <<keyVars, segVars, mergeVars, runVars, extractVars, storeVars, converterVars, loaderVars, finishVars, pageVars, solVars>>
notSegVars == <<keyVars, cleanVars, mergeVars, runVars, extractVars, storeVars, converterVars, loaderVars, finishVars, pageVars, solVars>>
notMergeVars == <<keyVars, cleanVars, segVars, runVars, extractVars, storeVars, converterVars, loaderVars, finishVars, pageVars, solVars>>
notRunVars == <<keyVars, cleanVars, segVars, mergeVars, extractVars, storeVars, converterVars, loaderVars, finishVars, pageVars, solVars>>
notExtractVars == <<keyVars, cleanVars, segVars, mergeVars, runVars, storeVars, converterVars, loaderVars, finishVars, pageVars, solVars>>
notStoreVars == <<keyVars, cleanVars, segVars, mergeVars, runVars, extractVars, converterVars, loaderVars, finishVars, pageVars, solVars>>
notConverterVars == <<keyVars, cleanVars, segVars, mergeVars, runVars, extractVars, storeVars, loaderVars, finishVars, pageVars, solVars>>
notLoaderVars == <<keyVars, cleanVars, segVars, mergeVars, runVars, extractVars, storeVars, converterVars, finishVars, pageVars, solVars>>
notFinishVars == <<keyVars, cleanVars, segVars, mergeVars, runVars, extractVars, storeVars, converterVars, loaderVars, pageVars, solVars>>
notPageVars == <<keyVars, cleanVars, segVars, mergeVars, runVars, extractVars, storeVars, converterVars, loaderVars, finishVars, solVars>>
notSolVars == <<keyVars, cleanVars, segVars, mergeVars, runVars, extractVars, storeVars, converterVars, loaderVars, finishVars, pageVars>>
notStoreFinishVars == <<keyVars, cleanVars, segVars, mergeVars, runVars, extractVars, converterVars, loaderVars, pageVars, solVars>>
notStoreFinishPageVars == <<keyVars, cleanVars, segVars, mergeVars, runVars, extractVars, converterVars, loaderVars, solVars>>

\* ------------------------------------------------------------------------
\* Generic helpers
\* ------------------------------------------------------------------------
Null == "null"
None == << >>
Some(v) == <<v>>
EmptyMap == << >>

Min(a, b) == IF a <= b THEN a ELSE b

\* obj[k] = v on a JavaScript object
Put(f, k, v) == [x \in (DOMAIN f) \cup {k} |-> IF x = k THEN v ELSE f[x]]

\* ------------------------------------------------------------------------
\* Strings are sequences of characters. A fixed phrase of the patterns is one
\* character of the model: "moed" for the word in front of the season
\* name, "season" for one of the three season names, "rights", "(c)" and
\* "nocopy" for the three boilerplate openers.
\* ------------------------------------------------------------------------
IsWs(c) == c \in {" ", "\t", "\n"}
IsDigit(c) == c \in {"0", "1", "2", "3", "4", "5", "6", "7", "8", "9"}

\* bound of the generated texts: number of pieces
MaxPieces == 5

\* x.replace(/\s+/g, ' ')
\* (of a run of white space its last character is kept, as a blank)
CollapseWs(s) ==
    IF s = << >> THEN << >>
    ELSE LET kept == SelectSeq([i \in 1..Len(s) |-> i],
                               LAMBDA i : \/ ~IsWs(s[i])
                                          \/ i = Len(s)
                                          \/ ~IsWs(s[i + 1]))
         IN  << >> \o [k \in 1..Len(kept) |->
                          IF IsWs(s[kept[k]]) THEN " " ELSE s[kept[k]]]

RECURSIVE TrimStart(_)
TrimStart(s) == IF s # << >> /\ IsWs(Head(s)) THEN TrimStart(Tail(s)) ELSE s

RECURSIVE TrimEnd(_)
TrimEnd(s) ==
    IF s # << >> /\ IsWs(s[Len(s)]) THEN TrimEnd(SubSeq(s, 1, Len(s) - 1)) ELSE s

\* x.replace(/^\s+|\s+$/g, '') and x.trim()
Trim(s) == TrimEnd(TrimStart(s))

\* number of digits of s from index i on
RECURSIVE DigitRun(_, _)
DigitRun(s, i) == IF i <= Len(s) /\ IsDigit(s[i]) THEN 1 + DigitRun(s, i + 1) ELSE 0

\* length of the match of /- \d+ -/ at index i, 0 when there is none
PageNumberAt(s, i) ==
    LET k == DigitRun(s, i + 2)
    IN  IF /\ i + 1 <= Len(s) /\ s[i] = "-" /\ s[i + 1] = " "
           /\ k >= 1 /\ i + 3 + k <= Len(s)
           /\ s[i + 2 + k] = " " /\ s[i + 3 + k] = "-"
        THEN k + 4 ELSE 0

\* length of the match of /<moed> (<season>) \d{4}/ at index i
SeasonAt(s, i) ==
    IF /\ i + 7 <= Len(s) /\ s[i] = "moed" /\ s[i + 1] = " "
       /\ s[i + 2] = "season" /\ s[i + 3] = " " /\ DigitRun(s, i + 4) >= 4
    THEN 8 ELSE 0

\* length of the match of /<opener>[^.]+\./ at index i
BoilerplateAt(s, i, opener) ==
    IF s[i] = opener /\ i + 1 <= Len(s) /\ s[i + 1] # "."
       /\ \E j \in (i + 2)..Len(s) : s[j] = "."
    THEN (CHOOSE j \in (i + 2)..Len(s) :
              s[j] = "." /\ \A m \in (i + 2)..(j - 1) : s[m] # ".") - i + 1
    ELSE 0

MatchAt(s, i, pat) ==
    CASE pat = "page"   -> PageNumberAt(s, i)
      [] pat = "season" -> SeasonAt(s, i)
      [] OTHER          -> BoilerplateAt(s, i, pat)

\* x.replace(/pat/g, ''): leftmost matches, scanning on after each match
RECURSIVE RemoveFrom(_, _, _)
RemoveFrom(s, i, pat) ==
    LET hits == SelectSeq([j \in 1..(Len(s) + 1 - i) |-> i + j - 1],
                          LAMBDA j : MatchAt(s, j, pat) > 0)
    IN  IF hits = << >> THEN SubSeq(s, i, Len(s))
        ELSE SubSeq(s, i, hits[1] - 1)
                 \o RemoveFrom(s, hits[1] + MatchAt(s, hits[1], pat), pat)

RemoveAll(s, pat) == RemoveFrom(s, 1, pat)

\* improved-parser.cjs:21-33
\* the replace calls of a chain, one pattern after the other
RECURSIVE RemoveEach(_, _)
RemoveEach(s, pats) ==
    IF pats = << >> THEN s
    ELSE RemoveEach(RemoveAll(s, Head(pats)), Tail(pats))

cleanText(text) ==
    IF text = << >> THEN << >>
    ELSE Trim(RemoveEach(Trim(CollapseWs(text)),
                         <<"page", "season", "rights", "(c)", "nocopy">>))

\* the generated texts are built from single characters and two ready-made
\* boilerplate fragments, a page footer "- 7 -" and a notice "(c)a."
CleanPieces ==
    {<<c>> : c \in {" ", "\n", "-", "7", "a", "(c)", "."}}
    \cup {<<"-", " ", "7", " ", "-">>, <<"(c)", "a", ".">>}

CleanParked ==
    /\ cpc = "off"
    /\ cin = << >>
    /\ npieces = 0
    /\ cout1 = << >>
    /\ cout2 = << >>

CleanInit ==
    /\ cpc = "input"
    /\ cin = << >>
    /\ npieces = 0
    /\ cout1 = << >>
    /\ cout2 = << >>

\* the caller's text grows by one piece
AppendPiece(piece) ==
    /\ cpc = "input"
    /\ npieces < MaxPieces
    /\ cin' = cin \o piece
    /\ npieces' = npieces + 1
    /\ UNCHANGED <<cpc, cout1, cout2>>
    /\ UNCHANGED notCleanVars

\* cleanText(x)
CleanOnce ==
    /\ cpc = "input"
    /\ cout1' = cleanText(cin)
    /\ cpc' = "once"
    /\ UNCHANGED <<cin, npieces, cout2>>
    /\ UNCHANGED notCleanVars

\* cleanText(cleanText(x))
CleanTwice ==
    /\ cpc = "once"
    /\ cout2' = cleanText(cout1)
    /\ cpc' = "twice"
    /\ UNCHANGED <<cin, npieces, cout1>>
    /\ UNCHANGED notCleanVars

CleanNext ==
    \/ \E piece \in CleanPieces : AppendPiece(piece)
    \/ CleanOnce
    \/ CleanTwice

\* C8: cleanText(cleanText(x)) = cleanText(x) for every x.
C8_Idempotent == cpc = "twice" => cout2 = cout1

\* ------------------------------------------------------------------------
\* Section boundaries: the head of extractHebrewSection and of
\* extractEnglishSection (the same code).
\*
\* The exam text is a sequence of tokens: a marker spelling, the landmark
\* phrase of the table of contents, or a pad of PadLen other characters. No
\* marker spelling is a substring of another or overlaps one, so an
\* occurrence of a spelling in the text is a token of the sequence.
\* ------------------------------------------------------------------------
\* bounds of the generated exam texts
MaxTokens == 5
PadLen == 1000

\* improved-parser.cjs:249-250: the fixed offset that skips the table of contents
TocSkip == 1000

KeyMarker == "answer-key-marker"
Landmark == "landmark"

\* improved-parser.cjs:207-215
SECTION_ORDER ==
    << "verbal-1-header", "verbal-2-header", "quantitative-1-header",
       "quantitative-2-header", "english-1-header", "english-2-header",
       KeyMarker >>

\* improved-parser.cjs:219-227
SECTION_VARIANTS(marker) ==
    CASE marker = "quantitative-1-header" ->
            <<"quantitative-1-header", "quantitative-1-garbled">>
      [] marker = "quantitative-2-header" ->
            <<"quantitative-2-header", "quantitative-2-garbled">>
      [] OTHER -> <<marker>>

\* .length of the token's text
TokenLength(t) ==
    CASE t = "pad" -> PadLen
      [] t = Landmark -> 11
      [] t = "verbal-1-header" -> 25
      [] t = "verbal-2-header" -> 23
      [] t \in {"quantitative-1-header", "quantitative-1-garbled"} -> 24
      [] t \in {"quantitative-2-header", "quantitative-2-garbled"} -> 22
      [] t = "english-1-header" -> 18
      [] t = "english-2-header" -> 16
      [] t = KeyMarker -> 18

RECURSIVE TextLength(_)
TextLength(txt) ==
    IF txt = << >> THEN 0 ELSE TokenLength(Head(txt)) + TextLength(Tail(txt))

\* offset of the k-th token
OffsetOf(txt, k) == TextLength(SubSeq(txt, 1, k - 1))

\* txt.indexOf(word, from)
IndexOf(txt, word, from) ==
    LET hits == {k \in 1..Len(txt) : txt[k] = word /\ OffsetOf(txt, k) >= from}
    IN  IF hits = {} THEN -1
        ELSE OffsetOf(txt, CHOOSE k \in hits : \A m \in hits : k <= m)

\* improved-parser.cjs:229-242
RECURSIVE FindVariants(_, _, _, _)
FindVariants(txt, variants, startFrom, minIdx) ==
    IF variants = << >> THEN minIdx
    ELSE LET idx == IndexOf(txt, Head(variants), startFrom)
         IN  FindVariants(txt, Tail(variants), startFrom,
                 IF idx # -1 /\ (minIdx = -1 \/ idx < minIdx) THEN idx ELSE minIdx)

\* the first spelling that occurs is taken, wherever the others occur
\* (a faulty variant)
findFirstVariant(txt, marker, startFrom) ==
    LET variants == SECTION_VARIANTS(marker)
        ks == {k \in 1..Len(variants) : IndexOf(txt, variants[k], startFrom) # -1}
    IN  IF ks = {} THEN -1
        ELSE IndexOf(txt, variants[CHOOSE k \in ks : \A m \in ks : k <= m],
                     startFrom)

findSectionMarker(txt, marker, startFrom) ==
    FindVariants(txt, SECTION_VARIANTS(marker), startFrom, -1)

\* improved-parser.cjs:249-250
SearchStart(txt) ==
    LET tocEnd == IndexOf(txt, Landmark, TocSkip)
    IN  IF tocEnd > 0 THEN tocEnd ELSE TocSkip

\* the successor two places on in SECTION_ORDER (a faulty variant)
NextMarkerSkipsOne(currentIdx) ==
    SECTION_ORDER[IF currentIdx + 2 <= Len(SECTION_ORDER)
                  THEN currentIdx + 2 ELSE currentIdx + 1]

\* the answer-key marker taken as the successor of every section
\* (a faulty variant)
NextMarkerKeyOnly(currentIdx) == SECTION_ORDER[Len(SECTION_ORDER)]

\* improved-parser.cjs:261: SECTION_ORDER[currentIdx + 1], 1-based here
NextMarker(currentIdx) == SECTION_ORDER[currentIdx + 1]

\* improved-parser.cjs:249-275 (and 438-462): sectionStart and sectionEnd of
\* the section whose marker is SECTION_ORDER[currentIdx]
Boundary(txt, currentIdx) ==
    LET sectionMarker == SECTION_ORDER[currentIdx]
        sectionStart == findSectionMarker(txt, sectionMarker, SearchStart(txt))
        nextIdx == IF currentIdx < Len(SECTION_ORDER)
                   THEN findSectionMarker(txt, NextMarker(currentIdx),
                            sectionStart + TokenLength(sectionMarker))
                   ELSE -1
        end1 == IF nextIdx # -1 THEN nextIdx ELSE TextLength(txt)
        answerKeyIdx == IndexOf(txt, KeyMarker, sectionStart)
        sectionEnd == IF answerKeyIdx # -1 /\ answerKeyIdx < end1
                      THEN answerKeyIdx ELSE end1
    IN  IF sectionStart = -1
        THEN [found |-> FALSE, start |-> -1, end |-> -1]
        ELSE [found |-> TRUE, start |-> sectionStart, end |-> sectionEnd]

SegTokens ==
    {"pad", Landmark, "verbal-1-header", "verbal-2-header",
     "quantitative-1-header", "quantitative-1-garbled", KeyMarker}

\* the six sections parseExam cuts (improved-parser.cjs:705-712)
SegSections == 1..(Len(SECTION_ORDER) - 1)

SegParked ==
    /\ spc = "off"
    /\ examText = << >>
    /\ sidx = 1
    /\ boundary = EmptyMap

SegInit ==
    /\ spc = "build"
    /\ examText = << >>
    /\ sidx = 1
    /\ boundary = EmptyMap

\* the exam text grows by one token
AddToken(t) ==
    /\ spc = "build"
    /\ Len(examText) < MaxTokens
    /\ examText' = Append(examText, t)
    /\ UNCHANGED <<spc, sidx, boundary>>
    /\ UNCHANGED notSegVars

\* improved-parser.cjs:700: the text is read, the sections are cut in order
StartSegment ==
    /\ spc = "build"
    /\ spc' = "segment"
    /\ UNCHANGED <<examText, sidx, boundary>>
    /\ UNCHANGED notSegVars

\* improved-parser.cjs:730-732: the next section's boundaries
SegmentSection ==
    /\ spc = "segment"
    /\ boundary' = Put(boundary, sidx, Boundary(examText, sidx))
    /\ sidx' = sidx + 1
    /\ spc' = IF sidx + 1 \in SegSections THEN "segment" ELSE "done"
    /\ UNCHANGED examText
    /\ UNCHANGED notSegVars

SegNext ==
    \/ \E t \in SegTokens : AddToken(t)
    \/ StartSegment
    \/ SegmentSection

BothFound(k) ==
    /\ k \in DOMAIN boundary /\ k + 1 \in DOMAIN boundary
    /\ boundary[k].found /\ boundary[k + 1].found

\* C7 (as stated): for adjacent sections K, K+1 whose start markers are both
\* found, the end of K is at most the start of K+1.
C7_AsStated ==
    \A k \in SegSections :
        (k + 1 \in SegSections /\ BothFound(k)) =>
            boundary[k].end <= boundary[k + 1].start

\* C7 (amended): the same when the start found for K+1 is not before the
\* start found for K.
C7_AdjacentOrdered ==
    \A k \in SegSections :
        (k + 1 \in SegSections /\ BothFound(k)
           /\ boundary[k].start <= boundary[k + 1].start) =>
            boundary[k].end <= boundary[k + 1].start

\* sections 1 and 2 in order, a stray marker of section 3 between them
C7_Witness ==
    /\ BothFound(1) /\ BothFound(2)
    /\ boundary[1].start < boundary[3].start
    /\ boundary[3].start < boundary[2].start
    /\ boundary[1].end = boundary[2].start

\* the tokens after the start marker of section k that can end it: the
\* variants of its successor in SECTION_ORDER and the answer-key marker
EndTokens(k) ==
    LET startTok == CHOOSE j \in 1..Len(examText) :
                        OffsetOf(examText, j) = boundary[k].start
        succ == SECTION_VARIANTS(SECTION_ORDER[k + 1])
    IN  {j \in (startTok + 1)..Len(examText) :
            \/ \E v \in DOMAIN succ : examText[j] = succ[v]
            \/ examText[j] = KeyMarker}

\* C23: the end of a section that was found is the offset of the first marker
\* of its successor in canonical order after its start marker, or of the
\* answer-key marker when that comes first, or the length of the text when
\* neither occurs; markers of other sections in between never end it.
C23_EndAtSuccessor ==
    \A k \in DOMAIN boundary :
        boundary[k].found =>
            boundary[k].end =
                IF EndTokens(k) = {} THEN TextLength(examText)
                ELSE OffsetOf(examText,
                         CHOOSE j \in EndTokens(k) : \A m \in EndTokens(k) : j <= m)

\* the text pad, verbal-1, quantitative-1, verbal-2, answer key: the first
\* section runs past the marker of the third to the marker of the second,
\* the second has no successor marker and ends at the answer key
C23_Witness ==
    /\ spc = "done"
    /\ examText = <<"pad", "verbal-1-header", "quantitative-1-header",
                    "verbal-2-header", KeyMarker>>
    /\ boundary[1].found /\ boundary[1].end = OffsetOf(examText, 4)
    /\ boundary[2].found /\ boundary[2].end = OffsetOf(examText, 5)
    /\ boundary[3].found /\ boundary[3].end = OffsetOf(examText, 5)

\* ------------------------------------------------------------------------
\* Bounds of the answer-key model
\* ------------------------------------------------------------------------
MaxLines == 5
\* sentinel rows 1..n are generated for n in 10..MaxQ
MaxQ == 11
\* number of sections (in list order) whose header occurs in generated texts
NumKeySections == 2

\* ------------------------------------------------------------------------
\* parseAnswerKey
\* ------------------------------------------------------------------------
\* improved-parser.cjs:57-64, the order of the list is the match order
sections ==
    << [pattern |-> "verbal-1-header", key |-> "verbal-1"],
       [pattern |-> "verbal-2-header", key |-> "verbal-2"],
       [pattern |-> "quantitative-1-header", key |-> "quantitative-1"],
       [pattern |-> "quantitative-2-header", key |-> "quantitative-2"],
       [pattern |-> "english-1-header", key |-> "english-1"],
       [pattern |-> "english-2-header", key |-> "english-2"] >>

SectionKeys == {sections[k].key : k \in 1..Len(sections)}

\* String(num): the decimal numeral of num as a sequence of digits
RECURSIVE DigitsOf(_)
DigitsOf(n) == IF n < 10 THEN <<n>> ELSE DigitsOf(n \div 10) \o <<n % 10>>

\* s.startsWith(p)
StartsWith(s, p) == Len(s) >= Len(p) /\ SubSeq(s, 1, Len(p)) = p

\* the row "123...n": the numerals 1..n written without separators
RECURSIVE SentinelRow(_)
SentinelRow(n) == IF n = 0 THEN << >> ELSE SentinelRow(n - 1) \o DigitsOf(n)

\* improved-parser.cjs:97-107: greedy decoding of the sentinel row.
\* pos is 0-based as in the code.
RECURSIVE DecodeFrom(_, _, _, _)
DecodeFrom(ln, pos, num, acc) ==
    IF pos < Len(ln)
    THEN IF StartsWith(SubSeq(ln, pos + 1, Len(ln)), DigitsOf(num))
         THEN DecodeFrom(ln, pos + Len(DigitsOf(num)), num + 1, Append(acc, num))
         ELSE acc
    ELSE acc

\* the decoding with pos advanced by one character per number (a faulty variant)
RECURSIVE DecodeFromOneChar(_, _, _, _)
DecodeFromOneChar(ln, pos, num, acc) ==
    IF pos < Len(ln)
    THEN IF StartsWith(SubSeq(ln, pos + 1, Len(ln)), DigitsOf(num))
         THEN DecodeFromOneChar(ln, pos + 1, num + 1, Append(acc, num))
         ELSE acc
    ELSE acc

DecodeSentinelOneChar(ln) == DecodeFromOneChar(ln, 0, 1, << >>)

DecodeSentinel(ln) == DecodeFrom(ln, 0, 1, << >>)

\* A line of keySection after trim(): the section patterns it contains, its
\* digits when it matches /^[\d]+$/ (<< >> otherwise), and whether it
\* contains the terminal marker.
TextLine(names, term) == [names |-> names, digits |-> << >>, term |-> term]
DigitLine(ds) == [names |-> {}, digits |-> ds, term |-> FALSE]

IsDigitLine(ln) == ln.digits # << >>

\* improved-parser.cjs:84-93: first entry of sections whose pattern the line
\* includes, 0 when there is none
MatchSection(ln) ==
    LET hits == {k \in 1..Len(sections) : sections[k].pattern \in ln.names}
    IN  IF hits = {} THEN 0 ELSE CHOOSE k \in hits : \A m \in hits : k <= m

\* improved-parser.cjs:70-79 saveAnswers without its range test (a faulty variant)
SaveAnswersNoRange(st) ==
    IF st.currentSection # Null /\ st.questionNumbers # None
       /\ Len(st.collectedAnswers) > 0
    THEN LET qn == st.questionNumbers[1]
             n  == Min(Len(qn), Len(st.collectedAnswers))
             sec == st.answerKey[st.currentSection]
             new == [q \in (DOMAIN sec) \cup {qn[j] : j \in 1..n} |->
                       IF \E j \in 1..n : qn[j] = q
                       THEN st.collectedAnswers[
                              CHOOSE j \in 1..n : qn[j] = q /\
                                 \A m \in 1..n : qn[m] = q => m <= j]
                       ELSE sec[q]]
         IN  Put(st.answerKey, st.currentSection, new)
    ELSE st.answerKey

\* improved-parser.cjs:70-79 saveAnswers: the answerKey after the call
SaveAnswers(st) ==
    IF st.currentSection # Null /\ st.questionNumbers # None
       /\ Len(st.collectedAnswers) > 0
    THEN LET qn == st.questionNumbers[1]
             n  == Min(Len(qn), Len(st.collectedAnswers))
             ok == {j \in 1..n : st.collectedAnswers[j] >= 1
                                  /\ st.collectedAnswers[j] <= 4}
             sec == st.answerKey[st.currentSection]
             new == [q \in (DOMAIN sec) \cup {qn[j] : j \in ok} |->
                       IF \E j \in ok : qn[j] = q
                       THEN st.collectedAnswers[
                              CHOOSE j \in ok : qn[j] = q /\
                                 \A m \in ok : qn[m] = q => m <= j]
                       ELSE sec[q]]
         IN  Put(st.answerKey, st.currentSection, new)
    ELSE st.answerKey

\* history of saveAnswers: it runs its loop and skips at least one digit
SkipsDigit(st) ==
    /\ st.currentSection # Null /\ st.questionNumbers # None
    /\ \E j \in 1..Min(Len(st.questionNumbers[1]), Len(st.collectedAnswers)) :
          st.collectedAnswers[j] < 1 \/ st.collectedAnswers[j] > 4

\* improved-parser.cjs:84-93: the section-header test of one line
HeaderStep(st, ln) ==
    LET k == MatchSection(ln)
    IN  IF k = 0 THEN st
        ELSE [answerKey |-> Put(SaveAnswers(st), sections[k].key, EmptyMap),
              currentSection |-> sections[k].key,
              questionNumbers |-> None,
              collectedAnswers |-> << >>,
              dropped |-> (st.dropped \cup
                             (IF SkipsDigit(st) THEN {st.currentSection} ELSE {}))
                          \ {sections[k].key}]

\* the zip done only once the stream is longer than the list of question
\* numbers (a faulty variant)
CollectWhenLonger(st, ln) ==
    LET st1 == [st EXCEPT !.collectedAnswers = @ \o ln.digits]
    IN  IF Len(st1.collectedAnswers) > Len(st1.questionNumbers[1])
        THEN [st1 EXCEPT !.answerKey = SaveAnswers(st1),
                         !.questionNumbers = None,
                         !.collectedAnswers = << >>]
        ELSE st1

\* improved-parser.cjs:111-115 and 119-123: zip once the stream is long enough
Collect(st, ln) ==
    LET st1 == [st EXCEPT !.collectedAnswers = @ \o ln.digits]
    IN  IF Len(st1.collectedAnswers) >= Len(st1.questionNumbers[1])
        THEN [st1 EXCEPT !.answerKey = SaveAnswers(st1),
                         !.questionNumbers = None,
                         !.collectedAnswers = << >>,
                         !.dropped = IF SkipsDigit(st1)
                                     THEN @ \cup {st1.currentSection} ELSE @]
        ELSE st1

\* improved-parser.cjs:95-124: the digit-line test of one line
DigitStep(st, ln) ==
    IF st.currentSection # Null /\ IsDigitLine(ln) /\ Len(ln.digits) > 10
    THEN IF StartsWith(ln.digits, <<1, 2, 3, 4, 5, 6, 7, 8, 9>>)
         THEN [st EXCEPT !.questionNumbers = Some(DecodeSentinel(ln.digits)),
                         !.collectedAnswers = << >>]
         ELSE IF st.questionNumbers # None THEN Collect(st, ln) ELSE st
    ELSE IF st.currentSection # Null /\ st.questionNumbers # None /\ IsDigitLine(ln)
         THEN Collect(st, ln)
         ELSE st

\* the terminal-marker test without its saveAnswers (a faulty variant)
TermStepNoFlush(st, ln) == st

\* improved-parser.cjs:126-129: the terminal-marker test of one line
TermStep(st, ln) ==
    IF ln.term
    THEN [st EXCEPT !.answerKey = SaveAnswers(st),
                    !.dropped = IF SkipsDigit(st) /\ Len(st.collectedAnswers) > 0
                                THEN @ \cup {st.currentSection} ELSE @]
    ELSE st

KeyState == [answerKey |-> answerKey, currentSection |-> currentSection,
             questionNumbers |-> questionNumbers,
             collectedAnswers |-> collectedAnswers, dropped |-> dropped]

\* ---- the generated lines
HeaderPatterns == {sections[k].pattern : k \in 1..NumKeySections}

TextLines ==
    {TextLine(ns, t) :
        ns \in {{}} \cup {{p} : p \in HeaderPatterns} \cup {HeaderPatterns},
        t \in BOOLEAN}

\* an answer row of the given length; variant 2 carries a 7 and a 0
AnswerRow(len, variant) ==
    [k \in 1..len |->
        IF variant = 2 /\ k = 2 THEN 7
        ELSE IF variant = 2 /\ k = 3 THEN 0
        ELSE ((k + variant) % 4) + 1]

AnswerRowLengths == {4, 6, 7, 11}

DigitLines ==
    {SentinelRow(n) : n \in 10..MaxQ}
    \cup {SentinelRow(9) \o <<1, 2>>}
    \cup {AnswerRow(len, v) : len \in AnswerRowLengths, v \in 0..2}

\* the header of the third section in the garbled spelling of
\* improved-parser.cjs:222
GarbledHeaderLine == TextLine({"quantitative-1-garbled"}, FALSE)

KeyLines == TextLines \cup {DigitLine(ds) : ds \in DigitLines}
                \cup {GarbledHeaderLine}

\* History of the text, independent of the decoder's variables: since the
\* last section header, n is the length of the section's sentinel row when it
\* is exactly "12...n" (0 before it), stream the digits of the pure-digit
\* lines after it, clean is FALSE once a second or a malformed sentinel row
\* occurred (or before the first header).
HistStep(h, ln) ==
    IF MatchSection(ln) # 0 THEN [n |-> 0, stream |-> << >>, clean |-> TRUE]
    ELSE IF ~IsDigitLine(ln) THEN h
    ELSE IF Len(ln.digits) > 10 /\ StartsWith(ln.digits, <<1, 2, 3, 4, 5, 6, 7, 8, 9>>)
         THEN IF h.n = 0 /\ \E n \in 10..(MaxQ + 1) : ln.digits = SentinelRow(n)
              THEN [h EXCEPT !.n = CHOOSE n \in 10..(MaxQ + 1) :
                                      ln.digits = SentinelRow(n)]
              ELSE [h EXCEPT !.clean = FALSE]
         ELSE IF h.n > 0 THEN [h EXCEPT !.stream = @ \o ln.digits] ELSE h

\* ---- actions
KeyParked ==
    /\ kpc = "off"
    /\ lineNo = 0
    /\ line = TextLine({}, FALSE)
    /\ currentSection = Null
    /\ questionNumbers = None
    /\ collectedAnswers = << >>
    /\ answerKey = EmptyMap
    /\ dropped = {}
    /\ hist = [n |-> 0, stream |-> << >>, clean |-> FALSE]

KeyInit ==
    /\ kpc = "start"
    /\ lineNo = 0
    /\ line = TextLine({}, FALSE)
    /\ currentSection = Null
    /\ questionNumbers = None
    /\ collectedAnswers = << >>
    /\ answerKey = EmptyMap
    /\ dropped = {}
    /\ hist = [n |-> 0, stream |-> << >>, clean |-> FALSE]

\* improved-parser.cjs:51-55: examText.indexOf(marker)
FindKey(found) ==
    /\ kpc = "start"
    /\ kpc' = IF found THEN "scan" ELSE "done"
    /\ UNCHANGED <<lineNo, line, currentSection, questionNumbers,
                   collectedAnswers, answerKey, dropped, hist>>
    /\ UNCHANGED notKeyVars

\* improved-parser.cjs:81-130: one iteration of the loop over lines.
\* lines[0] starts with the answer-key marker, so it is no digit line.
ScanLine(ln) ==
    /\ kpc = "scan"
    /\ lineNo < MaxLines
    /\ lineNo = 0 => ~IsDigitLine(ln)
    /\ LET s1 == HeaderStep(KeyState, ln)
           s2 == DigitStep(s1, ln)
           s3 == TermStep(s2, ln)
       IN  /\ answerKey' = s3.answerKey
           /\ currentSection' = s3.currentSection
           /\ questionNumbers' = s3.questionNumbers
           /\ collectedAnswers' = s3.collectedAnswers
           /\ dropped' = s3.dropped
    /\ hist' = HistStep(hist, ln)
    /\ line' = ln
    /\ lineNo' = lineNo + 1
    /\ kpc' = IF ln.term THEN "done" ELSE "scan"
    /\ UNCHANGED notKeyVars

\* improved-parser.cjs:81,132: the loop runs out of lines and the map is returned
EndOfText ==
    /\ kpc = "scan"
    /\ lineNo >= 1
    /\ kpc' = "done"
    /\ UNCHANGED <<lineNo, line, currentSection, questionNumbers,
                   collectedAnswers, answerKey, dropped, hist>>
    /\ UNCHANGED notKeyVars

KeyNext ==
    \/ \E found \in BOOLEAN : FindKey(found)
    \/ \E ln \in KeyLines : ScanLine(ln)
    \/ EndOfText

\* ------------------------------------------------------------------------
\* parseExam: the merge of the answer key with the extracted blocks
\* (improved-parser.cjs) and the answer-key-only build (official-parser.cjs)
\* ------------------------------------------------------------------------
\* bound: number of entries of the generated answer keys
MaxKeyed == 2

\* improved-parser.cjs:705-712
sectionDefs ==
    << [key |-> "verbal-1", type |-> "verbal", section |-> 1,
        marker |-> "verbal-1-header", lang |-> "he"],
       [key |-> "verbal-2", type |-> "verbal", section |-> 2,
        marker |-> "verbal-2-header", lang |-> "he"],
       [key |-> "quantitative-1", type |-> "quantitative", section |-> 1,
        marker |-> "quantitative-1-header", lang |-> "he"],
       [key |-> "quantitative-2", type |-> "quantitative", section |-> 2,
        marker |-> "quantitative-2-header", lang |-> "he"],
       [key |-> "english-1", type |-> "english", section |-> 1,
        marker |-> "english-1-header", lang |-> "en"],
       [key |-> "english-2", type |-> "english", section |-> 2,
        marker |-> "english-2-header", lang |-> "en"] >>

\* improved-parser.cjs:714-715
hebrewLabels == <<"alef", "bet", "gimel", "dalet">>
englishLabels == <<"1", "2", "3", "4">>

\* the word the generated stem of a Hebrew question starts with, 4 letters
QuestionWord == <<"shin", "alef", "lamed", "he">>

DigitChar(d) == <<"0", "1", "2", "3", "4", "5", "6", "7", "8", "9">>[d + 1]

\* `${qNum}`
RECURSIVE NumeralOf(_)
NumeralOf(n) ==
    IF n < 10 THEN <<DigitChar(n)>>
    ELSE NumeralOf(n \div 10) \o <<DigitChar(n % 10)>>

\* improved-parser.cjs:765,772: `<answer word> ${label}`
PlaceholderOption(label) == <<"answer-word", " ", label>>

\* improved-parser.cjs:782-784
PlaceholderStem(def, qNum) ==
    (IF def.lang = "he" THEN QuestionWord ELSE <<"Question">>)
        \o <<" ">> \o NumeralOf(qNum) \o <<" ", "-", " ", def.marker>>

\* official-parser.cjs:238
OfficialText(qNum) == QuestionWord \o <<" ">> \o NumeralOf(qNum)

\* official-parser.cjs:247: `<the correct answer is>: ${label}`
SynthesizedExplanation(label) == <<"correct-answer-is", ":", " ", label>>

\* the numbers in descending order (a faulty variant)
RECURSIVE SortedNumsDescending(_)
SortedNumsDescending(S) ==
    IF S = {} THEN << >>
    ELSE LET m == CHOOSE x \in S : \A y \in S : x >= y
         IN  <<m>> \o SortedNumsDescending(S \ {m})

\* sorted keys of an object with number keys
\* (Object.keys(..).map(Number).sort((a, b) => a - b))
RECURSIVE SortedNums(_)
SortedNums(S) ==
    IF S = {} THEN << >>
    ELSE LET m == CHOOSE x \in S : \A y \in S : x <= y
         IN  <<m>> \o SortedNums(S \ {m})

\* answerKey[def.key] || {}
SectionAnswers(key, def) == IF def.key \in DOMAIN key THEN key[def.key] ELSE EmptyMap

\* ---- cleanExplanation (improved-parser.cjs:35-42)
RECURSIVE SkipWs(_, _)
SkipWs(s, i) == IF i <= Len(s) /\ IsWs(s[i]) THEN SkipWs(s, i + 1) ELSE i

IsWordChar(c) == IsDigit(c) \/ c \in {"a", "b", "c", "d", "e", "x", "_"}

\* length of the match at index i of
\* /\b(<season>)\s*\d{4}\s*[-]\s*<explanations>[^-]+- \d+ -/
LeakedHeaderAt(s, i) ==
    LET j == SkipWs(s, i + 1)
        k == SkipWs(s, j + 4)
        m == SkipWs(s, k + 1)
        dashes == {p \in (m + 1)..Len(s) : s[p] = "-"}
        p == IF dashes = {} THEN 0
             ELSE CHOOSE x \in dashes : \A y \in dashes : x <= y
    IN  IF /\ s[i] = "season" /\ i > 1 /\ IsWordChar(s[i - 1])
           /\ DigitRun(s, j) >= 4
           /\ k <= Len(s) /\ s[k] = "-"
           /\ m <= Len(s) /\ s[m] = "explanations"
           /\ p > m + 1 /\ PageNumberAt(s, p) > 0
        THEN p + PageNumberAt(s, p) - i ELSE 0

\* length of the match at index i of
\* /<thinking (verbal|quantitative)>\s*-\s*<chapter>\s*(<first>|<second>)/
SectionNameAt(s, i) ==
    LET j == SkipWs(s, i + 1)
        k == SkipWs(s, j + 1)
        m == SkipWs(s, k + 1)
    IN  IF /\ s[i] = "thinking" /\ j <= Len(s) /\ s[j] = "-"
           /\ k <= Len(s) /\ s[k] = "chapter"
           /\ m <= Len(s) /\ s[m] = "ordinal"
        THEN m - i + 1 ELSE 0

RECURSIVE RemoveLeaked(_, _, _)
RemoveLeaked(s, i, pat) ==
    LET At(j) == IF pat = "header" THEN LeakedHeaderAt(s, j)
                 ELSE SectionNameAt(s, j)
        hits == SelectSeq([j \in 1..(Len(s) + 1 - i) |-> i + j - 1],
                          LAMBDA j : At(j) > 0)
    IN  IF hits = << >> THEN SubSeq(s, i, Len(s))
        ELSE SubSeq(s, i, hits[1] - 1)
                 \o RemoveLeaked(s, hits[1] + At(hits[1]), pat)

cleanExplanation(text) ==
    IF text = << >> THEN << >>
    ELSE LET RECURSIVE RemoveEachLeaked(_, _)
             RemoveEachLeaked(s, pats) ==
                 IF pats = << >> THEN s
                 ELSE RemoveEachLeaked(RemoveLeaked(s, 1, Head(pats)),
                                       Tail(pats))
         IN  Trim(RemoveEachLeaked(cleanText(text), <<"header", "name">>))

\* ---- the blocks the extractors return
Block(stem, options) == [stem |-> stem, options |-> options]

NoOptions == << << >>, << >>, << >>, << >> >>
OneOption == << << >>, <<"1", "0">>, << >>, << >> >>
TwoOptions == << <<"1", "0">>, << >>, <<"1", "6">>, << >> >>
FourOptions == << <<"1", "0">>, <<"1", "2">>, <<"1", "6">>, <<"1", "8">> >>

\* improved-parser.cjs:334-337: blocks of extractHebrewSection after
\* postProcessQuestions; saveCurrentQuestion stores a block for every
\* question number line, also when nothing was collected for it
HebrewBlocks ==
    { Block(<< >>, NoOptions),
      Block(<< >>, OneOption),
      Block(<<"a", "b", "c">>, NoOptions),
      Block(<<"a", "b", "c", "d">>, FourOptions),
      Block(QuestionWord \o <<" ", "7">>, TwoOptions) }

\* improved-parser.cjs:471-479: extractEnglishSection stores a block only
\* when a stem line or an option was collected
EnglishBlocks == HebrewBlocks \ {Block(<< >>, NoOptions)}

ExamBlocks(lang) == IF lang = "he" THEN HebrewBlocks ELSE EnglishBlocks

\* improved-parser.cjs:590-595: a fallback block has a stem of more than 15
\* characters and no options
SolutionBlocks == { Block([k \in 1..16 |-> "s"], NoOptions) }

\* improved-parser.cjs:605-607: an explanation has more than 20 characters
Explanations == { [k \in 1..21 |-> IF k = 11 THEN " " ELSE "e"] }

\* official-parser.cjs:170-172: an explanation has more than 30 characters
OfficialExplanations == { [k \in 1..31 |-> IF k = 11 THEN " " ELSE "e"] }

NonEmptyCount(options) == Cardinality({i \in 1..Len(options) : Len(options[i]) > 0})

\* improved-parser.cjs:749-755
PickExtracted(exam, sol) == IF exam = None /\ sol # None THEN sol ELSE exam

\* improved-parser.cjs:759-775
BuildOptions(extracted, labels) ==
    IF extracted # None /\ NonEmptyCount(extracted[1].options) > 0
    THEN [i \in 1..4 |->
            [id |-> i,
             text |-> IF extracted[1].options[i] # << >>
                      THEN extracted[1].options[i]
                      ELSE PlaceholderOption(labels[i]),
             label |-> labels[i]]]
    ELSE [i \in 1..4 |->
            [id |-> i, text |-> PlaceholderOption(labels[i]), label |-> labels[i]]]

\* improved-parser.cjs:761,768
HasValidOptions(extracted) ==
    extracted # None /\ NonEmptyCount(extracted[1].options) >= 2

\* improved-parser.cjs:778: extracted?.stem || ''
ExtractedStem(extracted) == IF extracted = None THEN << >> ELSE extracted[1].stem

\* improved-parser.cjs:779
HasValidStem(stem) ==
    stem # << >> /\ Len(stem) > 3 /\ ~StartsWith(stem, QuestionWord)

\* improved-parser.cjs:781-785
BuildStem(stem, def, qNum) ==
    IF stem = << >> \/ Len(stem) < 3 THEN PlaceholderStem(def, qNum) ELSE stem

\* improved-parser.cjs:786-801: the object pushed on allQuestions
MergedQuestion(def, qNum, correctAnswer, exam, sol, explanation) ==
    LET extracted == PickExtracted(exam, sol)
        labels == IF def.lang = "he" THEN hebrewLabels ELSE englishLabels
        stem == ExtractedStem(extracted)
    IN  [id |-> <<def.key, qNum>>,
         sectionType |-> def.type,
         sectionNumber |-> def.section,
         questionNumber |-> qNum,
         language |-> def.lang,
         stem |-> BuildStem(stem, def, qNum),
         options |-> BuildOptions(extracted, labels),
         correctAnswer |-> correctAnswer,
         explanation |-> cleanExplanation(
                           IF explanation = None THEN << >> ELSE explanation[1]),
         hasFullText |-> HasValidStem(stem) \/ HasValidOptions(extracted)]

\* the iteration with the push skipped when nothing was extracted
MergedQuestionsIfExtracted(def, qNum, correctAnswer, exam, sol, explanation) ==
    IF exam = None /\ sol = None THEN << >>
    ELSE << MergedQuestion(def, qNum, correctAnswer, exam, sol, explanation) >>

\* improved-parser.cjs:745-801: what one iteration pushes on allQuestions
MergedQuestions(def, qNum, correctAnswer, exam, sol, explanation) ==
    << MergedQuestion(def, qNum, correctAnswer, exam, sol, explanation) >>

\* official-parser.cjs:228-251: what one iteration pushes on allQuestions
OfficialQuestions(def, qNum, correctAnswer, explanation) ==
    << [id |-> <<def.key, qNum>>,
        questionNumber |-> qNum,
        sectionType |-> def.type,
        sectionNumber |-> def.section,
        text |-> OfficialText(qNum),
        options |-> [i \in 1..4 |->
                       [id |-> i, label |-> hebrewLabels[i],
                        text |-> PlaceholderOption(hebrewLabels[i])]],
        correctAnswer |-> correctAnswer - 1,
        correctAnswerLabel |-> hebrewLabels[correctAnswer],
        explanation |-> IF explanation # None /\ explanation[1] # << >>
                        THEN explanation[1]
                        ELSE SynthesizedExplanation(hebrewLabels[correctAnswer])] >>

\* ---- the generated answer keys
MergeSections == {"verbal-1", "verbal-2", "english-1"}
MergeQNums == {1, 2}

KeyedAnswer(q, off) == ((q + off) % 4) + 1

\* maps as parseAnswerKey returns them: a section is absent, or present with
\* the entries of some of its numbers (possibly none), every value in 1..4
MergeKeys ==
    LET off == [sec \in MergeSections |->
                   CASE sec = "verbal-1" -> 0
                     [] sec = "verbal-2" -> 2
                     [] sec = "english-1" -> 3]
    IN  { [sec \in secs |-> [q \in doms[sec] |-> KeyedAnswer(q, off[sec])]] :
            secs \in SUBSET MergeSections,
            doms \in [MergeSections -> SUBSET MergeQNums] }

KeySize(key) ==
    LET S == {<<sec, q>> \in (DOMAIN key) \X MergeQNums : q \in DOMAIN key[sec]}
    IN  Cardinality(S)

NoInput == [key |-> Null, qNum |-> 0, exam |-> None, sol |-> None,
            explanation |-> None]

MergeParked ==
    /\ mpc = "off"
    /\ script = "improved"
    /\ mKey = EmptyMap
    /\ defIdx = 1
    /\ qPos = 1
    /\ examNums = {}
    /\ lastIn = NoInput
    /\ allQuestions = << >>
    /\ examDoc = None

\* improved-parser.cjs:703-716
MergeInit ==
    /\ mpc = "section"
    /\ script \in {"improved", "official"}
    /\ mKey \in {key \in MergeKeys : KeySize(key) <= MaxKeyed}
    /\ defIdx = 1
    /\ qPos = 1
    /\ examNums = {}
    /\ lastIn = NoInput
    /\ allQuestions = << >>
    /\ examDoc = None

QuestionNums(key, def) == SortedNums(DOMAIN SectionAnswers(key, def))

\* improved-parser.cjs:718-725: a section without answers is skipped
SkipSection ==
    /\ mpc = "section"
    /\ defIdx <= Len(sectionDefs)
    /\ QuestionNums(mKey, sectionDefs[defIdx]) = << >>
    /\ defIdx' = defIdx + 1
    /\ UNCHANGED <<mpc, script, mKey, qPos, examNums, lastIn, allQuestions, examDoc>>
    /\ UNCHANGED notMergeVars

\* improved-parser.cjs:727-743: the extractors run on the section; nums are
\* the question numbers extractedQuestions has a block for
BeginSection(nums) ==
    /\ mpc = "section"
    /\ defIdx <= Len(sectionDefs)
    /\ QuestionNums(mKey, sectionDefs[defIdx]) # << >>
    /\ examNums' = IF script = "improved" THEN nums ELSE {}
    /\ qPos' = 1
    /\ mpc' = "question"
    /\ UNCHANGED <<script, mKey, defIdx, lastIn, allQuestions, examDoc>>
    /\ UNCHANGED notMergeVars

\* end of the iteration of the inner loop
Advance ==
    LET last == qPos = Len(QuestionNums(mKey, sectionDefs[defIdx]))
    IN  /\ qPos' = IF last THEN 1 ELSE qPos + 1
        /\ defIdx' = IF last THEN defIdx + 1 ELSE defIdx
        /\ mpc' = IF last THEN "section" ELSE "question"
        /\ examNums' = IF last THEN {} ELSE examNums

\* improved-parser.cjs:745-802: one question of the section
MergeQuestion(exam, sol, explanation) ==
    /\ mpc = "question"
    /\ script = "improved"
    /\ LET def == sectionDefs[defIdx]
           qNum == QuestionNums(mKey, def)[qPos]
       IN  /\ (exam # None) <=> (qNum \in examNums)
           /\ exam # None => exam[1] \in ExamBlocks(def.lang)
           /\ allQuestions' = allQuestions \o
                 MergedQuestions(def, qNum, SectionAnswers(mKey, def)[qNum],
                                 exam, sol, explanation)
           /\ lastIn' = [key |-> def.key, qNum |-> qNum, exam |-> exam,
                         sol |-> sol, explanation |-> explanation]
    /\ Advance
    /\ UNCHANGED <<script, mKey, examDoc>>
    /\ UNCHANGED notMergeVars

\* official-parser.cjs:228-251: one question of the section
OfficialQuestion(explanation) ==
    /\ mpc = "question"
    /\ script = "official"
    /\ LET def == sectionDefs[defIdx]
           qNum == QuestionNums(mKey, def)[qPos]
       IN  /\ allQuestions' = allQuestions \o
                 OfficialQuestions(def, qNum, SectionAnswers(mKey, def)[qNum],
                                   explanation)
           /\ lastIn' = [key |-> def.key, qNum |-> qNum, exam |-> None,
                         sol |-> None, explanation |-> explanation]
    /\ Advance
    /\ UNCHANGED <<script, mKey, examDoc>>
    /\ UNCHANGED notMergeVars

CountWhere(questions, Test(_)) ==
    Cardinality({i \in 1..Len(questions) : Test(questions[i])})

\* improved-parser.cjs:805-823
ExamDocument(season, questions) ==
    LET OfType(t) == CountWhere(questions, LAMBDA q : q.sectionType = t)
    IN  [id |-> season,
         totalQuestions |-> Len(questions),
         fullTextQuestions |-> CountWhere(questions, LAMBDA q : q.hasFullText),
         sections |-> [verbal |-> [questions |-> OfType("verbal")],
                       quantitative |-> [questions |-> OfType("quantitative")],
                       english |-> [questions |-> OfType("english")]],
         questions |-> questions]

\* official-parser.cjs:255-271
OfficialDocument(season, questions) ==
    LET Count(def) ==
            CountWhere(questions, LAMBDA q : q.sectionType = def.type
                                             /\ q.sectionNumber = def.section)
    IN  [id |-> season,
         totalQuestions |-> Len(questions),
         sections |-> SelectSeq([i \in 1..Len(sectionDefs) |->
                                   [type |-> sectionDefs[i].type,
                                    section |-> sectionDefs[i].section,
                                    questionCount |-> Count(sectionDefs[i])]],
                                LAMBDA sec : sec.questionCount > 0),
         questions |-> questions]

\* improved-parser.cjs:803-829, official-parser.cjs:252-275: the loop over
\* sectionDefs is over, the exam object is built
FinishSections ==
    /\ mpc = "section"
    /\ defIdx > Len(sectionDefs)
    /\ mpc' = "done"
    /\ examDoc' = Some(IF script = "improved"
                       THEN ExamDocument("season", allQuestions)
                       ELSE OfficialDocument("season", allQuestions))
    /\ UNCHANGED <<script, mKey, defIdx, qPos, examNums, lastIn, allQuestions>>
    /\ UNCHANGED notMergeVars

Optional(S) == {None} \cup {Some(x) : x \in S}

MergeNext ==
    \/ SkipSection
    \/ \E nums \in SUBSET MergeQNums : BeginSection(nums)
    \/ \E exam \in Optional(HebrewBlocks), sol \in Optional(SolutionBlocks),
          explanation \in Optional(Explanations) :
            MergeQuestion(exam, sol, explanation)
    \/ \E explanation \in Optional(OfficialExplanations) :
            OfficialQuestion(explanation)
    \/ FinishSections

\* ------------------------------------------------------------------------
\* The run of improved-parser.cjs: parseExam as a whole and the loop over
\* the three exams (improved-parser.cjs:689-830, 839-871)
\* ------------------------------------------------------------------------
\* improved-parser.cjs:839-843
exams == <<"spring-2025", "summer-2025", "fall-2025">>

\* improved-parser.cjs:48-52 and 132: what parseAnswerKey returns for a text
\* with or without the marker, scanned being what the scan of the lines
\* after the marker stores
AnswerKeyOf(text) == IF text.marker THEN text.scanned ELSE EmptyMap

\* improved-parser.cjs:556-558: nothing is extracted from a missing file
FromSolution(def, solFiles, found) == IF def.key \in solFiles THEN found ELSE None

\* improved-parser.cjs:745-802: the questions pushed for the numbers
\* nums[pos..] of one section
RECURSIVE SectionQuestions(_, _, _, _, _, _, _)
SectionQuestions(def, nums, pos, answers, exam, sol, explanation) ==
    IF pos > Len(nums) THEN << >>
    ELSE MergedQuestions(def, nums[pos], answers[nums[pos]], exam, sol, explanation)
            \o SectionQuestions(def, nums, pos + 1, answers, exam, sol, explanation)

\* improved-parser.cjs:718-803: the questions pushed for sectionDefs[i..]
RECURSIVE ExamQuestions(_, _, _, _, _, _)
ExamQuestions(i, key, solFiles, exam, sol, explanation) ==
    IF i > Len(sectionDefs) THEN << >>
    ELSE LET def == sectionDefs[i]
         IN  SectionQuestions(def, QuestionNums(key, def), 1,
                              SectionAnswers(key, def), exam,
                              FromSolution(def, solFiles, sol),
                              FromSolution(def, solFiles, explanation))
                \o ExamQuestions(i + 1, key, solFiles, exam, sol, explanation)

\* parseExam returning null for an exam without questions (a faulty variant)
parseExamNullIfEmpty(season, fileExists, text, solFiles, exam, sol, explanation) ==
    IF ~fileExists \/ AnswerKeyOf(text) = EmptyMap THEN None
    ELSE Some(ExamDocument(season,
                 ExamQuestions(1, AnswerKeyOf(text), solFiles, exam, sol, explanation)))

\* improved-parser.cjs:689-830
parseExam(season, fileExists, text, solFiles, exam, sol, explanation) ==
    IF ~fileExists THEN None
    ELSE Some(ExamDocument(season,
                 ExamQuestions(1, AnswerKeyOf(text), solFiles, exam, sol, explanation)))

\* results.push only for an exam with questions (a faulty variant)
PushResultIfQuestions(res, exam) ==
    IF exam = None \/ exam[1].totalQuestions = 0 THEN res
    ELSE Append(res, [id |-> exam[1].id,
                      totalQuestions |-> exam[1].totalQuestions,
                      fullTextQuestions |-> exam[1].fullTextQuestions])

\* improved-parser.cjs:851-858
PushResult(res, exam) ==
    IF exam = None THEN res
    ELSE Append(res, [id |-> exam[1].id,
                      totalQuestions |-> exam[1].totalQuestions,
                      fullTextQuestions |-> exam[1].fullTextQuestions])

\* the generated inputs of one exam: the scan stores nothing, one entry, or
\* two entries of one section, one of another and a third section left empty
RunKeys ==
    { EmptyMap,
      [sec \in {"verbal-1"} |-> [q \in {1} |-> 2]],
      [sec \in {"verbal-1", "verbal-2", "english-1"} |->
          CASE sec = "verbal-1" -> [q \in {1, 2} |-> KeyedAnswer(q, 0)]
            [] sec = "verbal-2" -> EmptyMap
            [] sec = "english-1" -> [q \in {1} |-> 4]] }

RunTexts == { [marker |-> m, scanned |-> key] : m \in BOOLEAN, key \in RunKeys }

\* number of entries of an answer key
RECURSIVE KeyedCount(_, _)
KeyedCount(key, i) ==
    IF i > Len(sectionDefs) THEN 0
    ELSE Len(QuestionNums(key, sectionDefs[i])) + KeyedCount(key, i + 1)

RunSolFiles == SUBSET {"verbal-1", "english-1"}

RunBlocks == {None, Some(Block(<<"a", "b", "c", "d">>, FourOptions))}

RunParked ==
    /\ rpc = "off"
    /\ runIdx = 1
    /\ results = << >>
    /\ written = {}
    /\ runLog = << >>
    /\ indexFile = None

\* improved-parser.cjs:845-847
RunInit ==
    /\ rpc = "loop"
    /\ runIdx = 1
    /\ results = << >>
    /\ written = {}
    /\ runLog = << >>
    /\ indexFile = None

\* improved-parser.cjs:849-862: one iteration of the loop over exams
RunExam(fileExists, text, solFiles, exam) ==
    /\ rpc = "loop"
    /\ runIdx <= Len(exams)
    /\ LET season == exams[runIdx]
           sol == CHOOSE b \in Optional(SolutionBlocks) : b # None
           explanation == CHOOSE e \in Optional(Explanations) : e # None
           doc == parseExam(season, fileExists, text, solFiles, exam, sol,
                            explanation)
       IN  /\ written' = IF doc = None THEN written ELSE written \cup {season}
           /\ results' = PushResult(results, doc)
           /\ runLog' = Append(runLog,
                 [season |-> season, file |-> fileExists,
                  marker |-> fileExists /\ text.marker,
                  emptyKey |-> fileExists /\ AnswerKeyOf(text) = EmptyMap,
                  keyed |-> IF fileExists THEN KeyedCount(AnswerKeyOf(text), 1)
                            ELSE 0,
                  noSolution |-> fileExists /\ solFiles = {},
                  exam |-> IF doc = None THEN None
                           ELSE Some([totalQuestions |-> doc[1].totalQuestions,
                                      emitted |-> Len(doc[1].questions)])])
    /\ runIdx' = runIdx + 1
    /\ UNCHANGED <<rpc, indexFile>>
    /\ UNCHANGED notRunVars

\* improved-parser.cjs:864-871
RECURSIVE SumOf(_, _)
SumOf(res, field) ==
    IF res = << >> THEN 0 ELSE Head(res)[field] + SumOf(Tail(res), field)

WriteIndex ==
    /\ rpc = "loop"
    /\ runIdx > Len(exams)
    /\ indexFile' = Some([exams |-> results,
                          totalQuestions |-> SumOf(results, "totalQuestions"),
                          fullTextQuestions |-> SumOf(results, "fullTextQuestions")])
    /\ rpc' = "done"
    /\ UNCHANGED <<runIdx, results, written, runLog>>
    /\ UNCHANGED notRunVars

RunNext ==
    \/ \E fileExists \in BOOLEAN, text \in RunTexts, solFiles \in RunSolFiles,
          exam \in RunBlocks :
            RunExam(fileExists, text, solFiles, exam)
    \/ WriteIndex

\* ------------------------------------------------------------------------
\* extractHebrewSection: the scan of the lines of a section
\* (improved-parser.cjs:141-193, 276-428). Lines are sequences of characters.
\* ------------------------------------------------------------------------
IsParen(c) == c \in {"(", ")"}

\* the digits the class [1-4] admits, with 5 admitted too (a faulty variant)
OptionDigitsOneToFive == {"1", "2", "3", "4", "5"}

\* improved-parser.cjs:147,161,177,393,400,407: the class [1-4]
OptionDigits == {"1", "2", "3", "4"}

\* parseInt of one digit
CharVal(c) == CHOOSE d \in 0..9 : DigitChar(d) = c

\* a match at index i of /\)[1-4]\(/ ("rtl"), /\([1-4]\)/ ("ltr") or
\* /[)(][1-4][)(]/ ("any")
MarkerAt(s, i, kind) ==
    /\ i >= 1 /\ i + 2 <= Len(s)
    /\ s[i + 1] \in OptionDigits
    /\ CASE kind = "rtl" -> s[i] = ")" /\ s[i + 2] = "("
         [] kind = "ltr" -> s[i] = "(" /\ s[i + 2] = ")"
         [] OTHER -> IsParen(s[i]) /\ IsParen(s[i + 2])

\* index of the first parenthesis at or after i, Len(s) + 1 when none
RECURSIVE NextParen(_, _)
NextParen(s, i) ==
    IF i > Len(s) \/ IsParen(s[i]) THEN i ELSE NextParen(s, i + 1)

\* improved-parser.cjs:147: the matches <<optNum, optText>> from index p on of
\* /([^\s()]+)\s*\)([1-4])\(/g
RECURSIVE RtlMatches(_, _)
RtlMatches(s, p) ==
    IF p > Len(s) THEN << >>
    ELSE IF IsWs(s[p]) \/ IsParen(s[p]) THEN RtlMatches(s, p + 1)
    ELSE LET RECURSIVE RunEnd(_)
             RunEnd(j) == IF j <= Len(s) /\ ~IsWs(s[j]) /\ ~IsParen(s[j])
                          THEN RunEnd(j + 1) ELSE j
             e == RunEnd(p)
             m == SkipWs(s, e)
         IN  IF MarkerAt(s, m, "rtl")
             THEN << <<CharVal(s[m + 1]), Trim(SubSeq(s, p, e - 1))>> >>
                     \o RtlMatches(s, m + 3)
             ELSE RtlMatches(s, e)

\* the matches of the pattern of line 161 cut after the first one
\* (a faulty variant)
RECURSIVE LtrMatchesFirstOnly(_, _)
LtrMatchesFirstOnly(s, p) ==
    IF p > Len(s) THEN << >>
    ELSE LET e == NextParen(s, p + 3)
         IN  IF /\ MarkerAt(s, p, "any")
                /\ e > p + 3
                /\ (e > Len(s) \/ MarkerAt(s, e, "any"))
             THEN << <<CharVal(s[p + 1]), Trim(SubSeq(s, p + 3, e - 1))>> >>
             ELSE LtrMatchesFirstOnly(s, p + 1)

\* improved-parser.cjs:161: the matches from index p on of
\* /[)(]([1-4])[)(]\s*([^)(]+?)(?=\s*[)(][1-4][)(]|$)/g
RECURSIVE LtrMatches(_, _)
LtrMatches(s, p) ==
    IF p > Len(s) THEN << >>
    ELSE LET e == NextParen(s, p + 3)
         IN  IF /\ MarkerAt(s, p, "any")
                /\ e > p + 3
                /\ (e > Len(s) \/ MarkerAt(s, e, "any"))
             THEN << <<CharVal(s[p + 1]), Trim(SubSeq(s, p + 3, e - 1))>> >>
                     \o LtrMatches(s, e)
             ELSE LtrMatches(s, p + 1)

\* improved-parser.cjs:177-183: the matches from index p on of
\* /([^)(]+?)\s*[)(]([1-4])[)(]/g
RECURSIVE MixedMatches(_, _)
MixedMatches(s, p) ==
    IF p > Len(s) THEN << >>
    ELSE LET e == NextParen(s, p)
         IN  IF e > Len(s) THEN << >>
             ELSE IF e > p /\ MarkerAt(s, e, "any")
             THEN << <<CharVal(s[e + 1]), Trim(SubSeq(s, p, e - 1))>> >>
                     \o MixedMatches(s, e + 3)
             ELSE MixedMatches(s, IF e > p THEN e + 1 ELSE p + 1)

\* options = ['', '', '', '']
FourEmpty == [i \in 1..4 |-> << >>]

\* improved-parser.cjs:149-156: options[optNum - 1] = optText for the matches
\* that pass the test, done is the parsed flag
RECURSIVE StoreMatches(_, _, _)
StoreMatches(matches, opts, done) ==
    IF matches = << >> THEN [options |-> opts, parsed |-> done]
    ELSE LET optNum == Head(matches)[1]
             optText == Head(matches)[2]
             ok == optNum >= 1 /\ optNum <= 4 /\ optText # << >>
         IN  StoreMatches(Tail(matches),
                          IF ok THEN Put(opts, optNum, optText) ELSE opts,
                          done \/ ok)

\* the parser without its first pattern, the one for ")N(" behind the
\* text (a faulty variant)
parseInlineWithoutRtl(ln) ==
    LET Try(matches, sofar) ==
            IF ~sofar.parsed /\ Len(matches) >= 2
            THEN StoreMatches(matches, sofar.options, FALSE)
            ELSE sofar
        r2 == Try(LtrMatches(ln, 1), [options |-> FourEmpty, parsed |-> FALSE])
        r3 == Try(MixedMatches(ln, 1), r2)
    IN  IF r3.parsed THEN Some(r3.options) ELSE None

\* improved-parser.cjs:141-193: None for null
parseInlineHebrewOptions(ln) ==
    LET Try(matches, sofar) ==
            IF ~sofar.parsed /\ Len(matches) >= 2
            THEN StoreMatches(matches, sofar.options, FALSE)
            ELSE sofar
        r1 == Try(RtlMatches(ln, 1), [options |-> FourEmpty, parsed |-> FALSE])
        r2 == Try(LtrMatches(ln, 1), r1)
        r3 == Try(MixedMatches(ln, 1), r2)
    IN  IF r3.parsed THEN Some(r3.options) ELSE None

\* stemLines.join(' ')
RECURSIVE JoinLines(_)
JoinLines(lns) ==
    IF lns = << >> THEN << >>
    ELSE IF Len(lns) = 1 THEN lns[1]
    ELSE lns[1] \o <<" ">> \o JoinLines(Tail(lns))

\* s.replace(/\s*[)(][1-4][)(]\s*/g, ' ') from index i on
RECURSIVE BlankMarkers(_, _)
BlankMarkers(s, i) ==
    IF i > Len(s) THEN << >>
    ELSE IF MarkerAt(s, SkipWs(s, i), "any")
         THEN <<" ">> \o BlankMarkers(s, SkipWs(s, SkipWs(s, i) + 3))
         ELSE <<s[i]>> \o BlankMarkers(s, i + 1)

\* s.replace(sub, ''): the first occurrence of a string is removed
RemoveFirst(s, sub) ==
    LET hits == {i \in 1..(Len(s) - Len(sub) + 1) :
                    SubSeq(s, i, i + Len(sub) - 1) = sub}
        i == CHOOSE x \in hits : \A y \in hits : x <= y
    IN  IF sub = << >> \/ hits = {} THEN s
        ELSE SubSeq(s, 1, i - 1) \o SubSeq(s, i + Len(sub), Len(s))

\* saveCurrentQuestion storing a block only when something was collected for
\* it, as the save of extractEnglishSection does (a faulty variant)
saveCurrentQuestionIfCollected(st) ==
    IF st.currentQ = None \/ (st.stemLines = << >> /\ ~st.hasFoundOptions)
    THEN st
    ELSE [st EXCEPT !.questions =
             Put(st.questions, st.currentQ[1],
                 [stem |-> JoinLines(st.stemLines), options |-> st.options])]

\* improved-parser.cjs:284-339: saveCurrentQuestion; st holds currentQ,
\* stemLines, options, hasFoundOptions and questions, and the function
\* changes options, hasFoundOptions and questions
saveCurrentQuestion(st) ==
    IF st.currentQ = None THEN st
    ELSE
    LET stem0 == JoinLines(st.stemLines)
        inlineOpts == IF st.hasFoundOptions THEN None
                      ELSE parseInlineHebrewOptions(stem0)
        \* improved-parser.cjs:290-306
        useInline == inlineOpts # None
                        /\ \E i \in DOMAIN inlineOpts[1] : inlineOpts[1][i] # << >>
        markers == {i \in 1..Len(stem0) : MarkerAt(stem0, i, "any")}
        \* 1-based index of the first option marker, the code's index plus 1
        firstOpt == IF markers = {} THEN 0
                    ELSE CHOOSE i \in markers : \A j \in markers : i <= j
        stemPart == SubSeq(stem0, 1, firstOpt - 1)
        dashes == {i \in 1..(Len(stemPart) - 2) :
                      SubSeq(stemPart, i, i + 2) = <<" ", "-", " ">>}
        lastDash == IF dashes = {} THEN 0
                    ELSE CHOOSE i \in dashes : \A j \in dashes : i >= j
        stem1 == IF useInline /\ firstOpt > 1
                 THEN cleanText(IF lastDash > 1
                                THEN SubSeq(stemPart, 1, lastDash + 2)
                                ELSE stemPart)
                 ELSE stem0
        opts1 == IF useInline THEN inlineOpts[1] ELSE st.options
        found1 == st.hasFoundOptions \/ useInline
        \* improved-parser.cjs:309
        stem2 == cleanText(stem1)
        \* improved-parser.cjs:312-320
        RECURSIVE DropLeaked(_, _)
        DropLeaked(s, i) ==
            IF i > Len(opts1) THEN s
            ELSE DropLeaked(IF i \in DOMAIN opts1 /\ Len(opts1[i]) > 3
                            THEN Trim(RemoveFirst(s, opts1[i])) ELSE s,
                            i + 1)
        stem3 == IF found1
                 THEN Trim(BlankMarkers(DropLeaked(stem2, 1), 1))
                 ELSE stem2
        \* improved-parser.cjs:323-327
        RECURSIVE StripLead(_, _)
        StripLead(s, word) ==
            IF s # << >> /\ s[1] = word
            THEN SubSeq(s, SkipWs(s, 2), Len(s)) ELSE s
        stem4 == Trim(CollapseWs(StripLead(StripLead(stem3, "given:"), "asked")))
        \* improved-parser.cjs:330
        opts2 == [i \in DOMAIN opts1 |-> cleanText(opts1[i])]
    IN  [st EXCEPT !.options = opts2,
                   !.hasFoundOptions = found1,
                   !.questions = Put(st.questions, st.currentQ[1],
                                     [stem |-> stem4, options |-> opts2])]

\* improved-parser.cjs:352-363: the lines skipped as page headers and footers
IsHeaderOrFooter(ln) ==
    \/ \E i \in 1..Len(ln) : ln[i] \in {"rights", "nocopy", "in-this-chapter",
                                        "time-allotted"}
    \/ \E i \in 1..(Len(ln) - 2) : ln[i] = "moed" /\ ln[i + 1] = " "
                                    /\ ln[i + 2] = "season"
    \/ (PageNumberAt(ln, 1) > 0 /\ PageNumberAt(ln, 1) = Len(ln))
    \/ ln = <<"empty-page">>

\* improved-parser.cjs:346-428: the body of the loop for one line of the
\* section; st holds the locals of extractHebrewSection
ScanHebrewLine(st, raw) ==
    LET ln == Trim(raw)
        n == Len(ln)
        \* improved-parser.cjs:342: /\.(\d{1,2})$/
        endDigits == IF n >= 3 /\ IsDigit(ln[n]) /\ IsDigit(ln[n - 1])
                        /\ ln[n - 2] = "." THEN 2
                     ELSE IF n >= 2 /\ IsDigit(ln[n]) /\ ln[n - 1] = "." THEN 1
                     ELSE 0
        \* improved-parser.cjs:343: /^(\d{1,2})\.\s/
        startDigits == IF n >= 4 /\ IsDigit(ln[1]) /\ IsDigit(ln[2])
                          /\ ln[3] = "." /\ IsWs(ln[4]) THEN 2
                       ELSE IF n >= 3 /\ IsDigit(ln[1]) /\ ln[2] = "."
                               /\ IsWs(ln[3]) THEN 1
                       ELSE 0
        RECURSIVE NumberOf(_)
        NumberOf(ds) == IF ds = << >> THEN 0
                        ELSE 10 * NumberOf(SubSeq(ds, 1, Len(ds) - 1))
                                + CharVal(ds[Len(ds)])
        \* improved-parser.cjs:374-381
        qNum == IF endDigits > 0 THEN NumberOf(SubSeq(ln, n - endDigits + 1, n))
                ELSE NumberOf(SubSeq(ln, 1, startDigits))
        stemPart == IF endDigits > 0 THEN Trim(SubSeq(ln, 1, n - endDigits - 1))
                    ELSE Trim(SubSeq(ln, SkipWs(ln, startDigits + 2), n))
        saved == saveCurrentQuestion(st)
        \* improved-parser.cjs:391-403
        lineOptions == parseInlineHebrewOptions(ln)
        inlineFound ==
            lineOptions # None
               /\ Cardinality({j \in DOMAIN lineOptions[1] :
                                  lineOptions[1][j] # << >>}) >= 2
        \* improved-parser.cjs:406: /^([^)(]+?)\s*\)([1-4])\($/
        standalone == n >= 4 /\ MarkerAt(ln, n - 2, "rtl")
                         /\ NextParen(ln, 1) = n - 2
        \* improved-parser.cjs:414: /^\(([1-4])\)\s*(.+)$/
        standalone2 == n >= 4 /\ MarkerAt(ln, 1, "ltr")
    IN  IF ln = << >> \/ IsHeaderOrFooter(ln) THEN st
        ELSE IF endDigits > 0 \/ startDigits > 0
        THEN [saved EXCEPT !.currentQ = Some(qNum),
                           !.stemLines = IF stemPart # << >> THEN <<stemPart>>
                                         ELSE << >>,
                           !.options = FourEmpty,
                           !.hasFoundOptions = FALSE]
        ELSE IF st.currentQ = None THEN st
        ELSE IF inlineFound
        THEN [st EXCEPT !.options =
                            [j \in DOMAIN st.options |->
                                IF j \in 1..4 /\ lineOptions[1][j] # << >>
                                THEN lineOptions[1][j] ELSE st.options[j]],
                        !.hasFoundOptions = TRUE]
        ELSE IF standalone
        THEN [st EXCEPT !.options =
                            Put(st.options, CharVal(ln[n - 1]),
                                cleanText(Trim(SubSeq(ln, 1, n - 3)))),
                        !.hasFoundOptions = TRUE]
        ELSE IF standalone2
        THEN [st EXCEPT !.options =
                            Put(st.options, CharVal(ln[2]),
                                cleanText(SubSeq(ln, SkipWs(ln, 4), n))),
                        !.hasFoundOptions = TRUE]
        ELSE [st EXCEPT !.stemLines = Append(st.stemLines, ln)]

\* improved-parser.cjs:617-683: postProcessQuestions for one block; the
\* model's stems carry no question mark and none of the two phrases the
\* function rewrites, so the stem is cleaned and its blanks collapsed
postProcessBlock(block) ==
    LET CutAtQuestionMark(opt) ==
            LET marks == {i \in 1..Len(opt) : opt[i] = "?"}
                first == CHOOSE i \in marks : \A j \in marks : i <= j
            IN  IF marks = {} THEN opt ELSE Trim(SubSeq(opt, 1, first - 1))
    IN  [stem |-> Trim(CollapseWs(cleanText(block.stem))),
         options |-> [i \in DOMAIN block.options |->
                        IF block.options[i] # << >>
                        THEN cleanText(CutAtQuestionMark(block.options[i]))
                        ELSE block.options[i]]]

\* improved-parser.cjs:471-479: saveCurrentQuestion of extractEnglishSection
saveEnglishQuestion(st) ==
    IF st.currentQ # None
          /\ (st.stemLines # << >>
                \/ \E i \in DOMAIN st.options : Len(st.options[i]) > 0)
    THEN [st EXCEPT !.questions =
                        Put(st.questions, st.currentQ[1],
                            [stem |-> cleanText(JoinLines(st.stemLines)),
                             options |-> [i \in DOMAIN st.options |->
                                            cleanText(st.options[i])]])]
    ELSE st

\* improved-parser.cjs:528: the matches <<optNum, optText>> from index p on
\* of /\(([1-4])\)\s*([^(]+)/g
RECURSIVE EnglishMatches(_, _)
EnglishMatches(s, p) ==
    IF p > Len(s) THEN << >>
    ELSE LET RECURSIVE NextOpen(_)
             NextOpen(j) == IF j > Len(s) \/ s[j] = "(" THEN j
                            ELSE NextOpen(j + 1)
             e == NextOpen(p + 3)
         IN  IF MarkerAt(s, p, "ltr") /\ e > p + 3
             THEN << <<CharVal(s[p + 1]),
                       Trim(CollapseWs(Trim(SubSeq(s, p + 3, e - 1))))>> >>
                     \o EnglishMatches(s, e)
             ELSE EnglishMatches(s, p + 1)

\* improved-parser.cjs:481-545: the body of the loop of extractEnglishSection
\* for one line
ScanEnglishLine(st, raw) ==
    LET ln == Trim(raw)
        n == Len(ln)
        \* improved-parser.cjs:508: /^(\d{1,2})\.\s+(.*)$/
        digits == IF n >= 4 /\ IsDigit(ln[1]) /\ IsDigit(ln[2])
                     /\ ln[3] = "." /\ IsWs(ln[4]) THEN 2
                  ELSE IF n >= 3 /\ IsDigit(ln[1]) /\ ln[2] = "."
                          /\ IsWs(ln[3]) THEN 1
                  ELSE 0
        qNum == IF digits = 2 THEN 10 * CharVal(ln[1]) + CharVal(ln[2])
                ELSE CharVal(ln[1])
        rest == SubSeq(ln, SkipWs(ln, digits + 2), n)
        saved == saveEnglishQuestion(st)
        \* improved-parser.cjs:520: /^\(([1-4])\)\s+(.*)$/
        optionLine == n >= 4 /\ MarkerAt(ln, 1, "ltr") /\ IsWs(ln[4])
        inlineOptions == EnglishMatches(ln, 1)
        RECURSIVE StoreAll(_, _)
        StoreAll(matches, opts) ==
            IF matches = << >> THEN opts
            ELSE StoreAll(Tail(matches),
                          Put(opts, Head(matches)[1], Head(matches)[2]))
    IN  IF ln = << >> THEN st
        ELSE IF \/ \E i \in 1..n : ln[i] \in {"rights", "nocopy", "moed"}
                \/ (PageNumberAt(ln, 1) > 0 /\ PageNumberAt(ln, 1) = n)
        THEN st
        ELSE IF ln = <<"Questions">>
        THEN [st EXCEPT !.inQuestionSection = TRUE, !.inPassage = FALSE]
        ELSE IF n >= 3 /\ SubSeq(ln, 1, 3) = <<"Text", " ", "I">>
        THEN [st EXCEPT !.inQuestionSection = FALSE, !.inPassage = TRUE]
        ELSE IF digits > 0
        THEN [saved EXCEPT !.currentQ = Some(qNum),
                           !.stemLines = IF rest # << >> THEN <<rest>> ELSE << >>,
                           !.options = FourEmpty,
                           !.inQuestionSection = TRUE,
                           !.inPassage = FALSE]
        ELSE IF st.inPassage THEN st
        ELSE IF st.currentQ = None \/ ~st.inQuestionSection THEN st
        ELSE IF optionLine
        THEN [st EXCEPT !.options = Put(st.options, CharVal(ln[2]),
                                        Trim(SubSeq(ln, SkipWs(ln, 4), n)))]
        ELSE IF Len(inlineOptions) >= 2
        THEN [st EXCEPT !.options = StoreAll(inlineOptions, st.options)]
        ELSE [st EXCEPT !.stemLines = Append(st.stemLines, ln)]

\* improved-parser.cjs:567-596: the fallback question extractFromSolution
\* stores for one block of the solution text, None when it stores none;
\* the contents of the model are one line each
solutionQuestion(qNum, content) ==
    LET \* improved-parser.cjs:578: /^([^.]+(?:\.[^.]+){0,2})/
        RECURSIVE Sentences(_, _)
        Sentences(i, left) ==
            LET RunEnd(j) ==
                    CHOOSE k \in j..(Len(content) + 1) :
                        /\ k > Len(content) \/ content[k] = "."
                        /\ \A m \in j..(k - 1) : content[m] # "."
                e == RunEnd(i)
            IN  IF e = i THEN i - 2
                ELSE IF left > 0 /\ e <= Len(content) /\ RunEnd(e + 1) > e + 1
                THEN Sentences(e + 1, left - 1)
                ELSE e - 1
        matched == IF content # << >> /\ content[1] # "."
                   THEN SubSeq(content, 1, Sentences(1, 2)) ELSE << >>
        \* improved-parser.cjs:581: /<answer word>\s*\(\d\)\s*\.?\s*$/
        trimmed == Trim(matched)
        tails == {i \in 1..Len(trimmed) :
                    /\ trimmed[i] = "answer-word"
                    /\ LET j == SkipWs(trimmed, i + 1)
                       IN  /\ j + 2 <= Len(trimmed)
                           /\ trimmed[j] = "(" /\ IsDigit(trimmed[j + 1])
                           /\ trimmed[j + 2] = ")"
                           /\ LET k == SkipWs(trimmed, j + 3)
                              IN  \/ k > Len(trimmed)
                                  \/ /\ trimmed[k] = "."
                                     /\ SkipWs(trimmed, k + 1) > Len(trimmed)}
        cut == IF tails = {} THEN trimmed
               ELSE SubSeq(trimmed, 1,
                           (CHOOSE i \in tails : \A j \in tails : i <= j) - 1)
        whole == Trim(CollapseWs(cut))
        \* improved-parser.cjs:585-587
        stem == IF Len(whole) > 300
                THEN SubSeq(whole, 1, 300) \o <<".", ".", ".">> ELSE whole
    IN  IF qNum < 1 \/ qNum > 30 THEN None
        ELSE IF Len(stem) > 15
        THEN Some([stem |-> stem, options |-> FourEmpty])
        ELSE None

\* bound: number of lines of a section text, or of blocks of a solution text
MaxScan == 3

\* lines of a Hebrew section: the question line of the specification's
\* example, number lines with the number behind and in front, a stem line,
\* option lines of both orientations, and lines that are skipped
HebrewLines ==
    { <<"1", "0", " ", ")", "1", "(", " ", "1", "2", " ", ")", "2", "(", " ",
        "1", "6", " ", ")", "3", "(", " ", "1", "8", " ", ")", "4", "(", " ",
        ".", "7">>,
      <<".", "8">>,
      <<"9", ".", " ", "a", " ", "b">>,
      <<"a", "b", "c", "d", "e", " ", ")", "1", "(", " ",
        "f", "g", "h", "i", "j", " ", ")", "2", "(", " ", ".", "3">>,
      <<"a", " ", "b", " ", "c", " ", "d">>,
      <<"w", " ", ")", "3", "(">>,
      <<"(", "2", ")", " ", "x", " ", "y">>,
      <<"a", " ", ")", "1", "(", " ", "b", " ", ")", "2", "(">>,
      <<"(", "1", ")", " ", "a", " ", "(", "2", ")", " ", "b">>,
      <<"w", " ", ")", "5", "(">>,
      <<"-", " ", "7", " ", "-">>,
      <<" ">> }

\* lines of an English section
EnglishLines ==
    { <<"Questions">>,
      <<"Text", " ", "I">>,
      <<"1", ".", " ", "a", " ", "b">>,
      <<"1", "2", ".", " ", "c">>,
      <<"(", "1", ")", " ", "x">>,
      <<"(", "2", ")", " ", "y", " ", "z">>,
      <<"(", "1", ")", " ", "a", " ", "(", "2", ")", " ", "b">>,
      <<"(", "5", ")", " ", "w">>,
      <<"c", " ", "d">>,
      <<"-", " ", "7", " ", "-">>,
      <<"moed", " ", "season">> }

\* blocks of a solution text: the number in front and the content
SolutionContents ==
    { <<1, [k \in 1..16 |-> "s"]>>,
      <<2, <<"s", ".", "s">>>>,
      <<31, [k \in 1..16 |-> "s"]>>,
      <<3, [k \in 1..24 |-> IF k \in {9, 17, 21} THEN "." ELSE "s"]>>,
      <<7, [k \in 1..16 |-> "s"] \o <<" ", "answer-word", " ", "(", "2", ")">>>> }

\* the answers of the section in the answer key, never empty
\* (improved-parser.cjs:722-725)
ExtractAnswers ==
    { [q \in {7} |-> 2],
      [q \in {1, 3} |-> q],
      [q \in {8, 9, 12} |-> (q % 4) + 1] }

\* the locals of the extractors before the first line
NoScan == [currentQ |-> None, stemLines |-> << >>, options |-> FourEmpty,
           hasFoundOptions |-> FALSE, inQuestionSection |-> FALSE,
           inPassage |-> FALSE, questions |-> EmptyMap]

ExtractParked ==
    /\ xpc = "off"
    /\ xlang = "hebrew"
    /\ xlines = << >>
    /\ scan = NoScan
    /\ xAnswers = EmptyMap
    /\ blocks = EmptyMap
    /\ merged = EmptyMap

ExtractInit ==
    /\ xpc = "scan"
    /\ xlang \in {"hebrew", "english", "solution"}
    /\ xlines = << >>
    /\ scan = NoScan
    /\ xAnswers \in ExtractAnswers
    /\ blocks = EmptyMap
    /\ merged = EmptyMap

\* one iteration of the loop of extractHebrewSection
HebrewLine(raw) ==
    /\ xpc = "scan" /\ xlang = "hebrew" /\ Len(xlines) < MaxScan
    /\ scan' = ScanHebrewLine(scan, raw)
    /\ xlines' = Append(xlines, raw)
    /\ UNCHANGED <<xpc, xlang, xAnswers, blocks, merged>>
    /\ UNCHANGED notExtractVars

\* one iteration of the loop of extractEnglishSection
EnglishLine(raw) ==
    /\ xpc = "scan" /\ xlang = "english" /\ Len(xlines) < MaxScan
    /\ scan' = ScanEnglishLine(scan, raw)
    /\ xlines' = Append(xlines, raw)
    /\ UNCHANGED <<xpc, xlang, xAnswers, blocks, merged>>
    /\ UNCHANGED notExtractVars

\* one iteration of the loop of extractFromSolution
SolutionBlock(qNum, content) ==
    /\ xpc = "scan" /\ xlang = "solution" /\ Len(xlines) < MaxScan
    /\ scan' = IF solutionQuestion(qNum, content) = None THEN scan
               ELSE [scan EXCEPT !.questions =
                        Put(scan.questions, qNum,
                            solutionQuestion(qNum, content)[1])]
    /\ xlines' = Append(xlines, content)
    /\ UNCHANGED <<xpc, xlang, xAnswers, blocks, merged>>
    /\ UNCHANGED notExtractVars

\* the end of the section text: the last question is saved, and parseExam
\* post-processes the blocks of the exam text (improved-parser.cjs:425,
\* 547, 736)
EndOfSection ==
    /\ xpc = "scan"
    /\ scan' = CASE xlang = "hebrew" -> saveCurrentQuestion(scan)
                 [] xlang = "english" -> saveEnglishQuestion(scan)
                 [] OTHER -> scan
    /\ blocks' = IF xlang = "solution" THEN scan'.questions
                 ELSE [q \in DOMAIN scan'.questions |->
                         postProcessBlock(scan'.questions[q])]
    /\ xpc' = "extracted"
    /\ UNCHANGED <<xlang, xlines, xAnswers, merged>>
    /\ UNCHANGED notExtractVars

\* improved-parser.cjs:744-802: the questions parseExam pushes for the section
MergeExtracted ==
    /\ xpc = "extracted"
    /\ LET def == IF xlang = "english" THEN sectionDefs[5] ELSE sectionDefs[1]
           found(q) == IF q \in DOMAIN blocks THEN Some(blocks[q]) ELSE None
       IN  merged' = [q \in DOMAIN xAnswers |->
                        MergedQuestions(def, q, xAnswers[q],
                            IF xlang = "solution" THEN None ELSE found(q),
                            IF xlang = "solution" THEN found(q) ELSE None,
                            None)[1]]
    /\ xpc' = "merged"
    /\ UNCHANGED <<xlang, xlines, scan, xAnswers, blocks>>
    /\ UNCHANGED notExtractVars

ExtractNext ==
    \/ \E raw \in HebrewLines : HebrewLine(raw)
    \/ \E raw \in EnglishLines : EnglishLine(raw)
    \/ \E b \in SolutionContents : SolutionBlock(b[1], b[2])
    \/ EndOfSection
    \/ MergeExtracted

\* ------------------------------------------------------------------------
\* The solution extractors: extractFromSolution (improved-parser.cjs:
\* 556-611) and extractExplanations (official-parser.cjs:136-176). The
\* solution text is split into blocks at the lines that start with a number
\* of one or two digits, a dot and white space; a block of the model is
\* that number and the text of the block after it.
\* ------------------------------------------------------------------------
\* bound: number of blocks of a solution text
MaxBlocks == 2

\* improved-parser.cjs:601-602
MaxExplanationLength == 1500

\* improved-parser.cjs:605
MinExplanationLength == 20

\* official-parser.cjs:166-167
OfficialMaxLength == 800

\* official-parser.cjs:170
OfficialMinLength == 30

Ellipsis == <<".", ".", ".">>

\* length of the match at index i of /<answer word>\s*\(\d\)\s*\.?\s*$/gm,
\* 0 when there is none; $ is the end of the text or the place in front
\* of a line break, and the longest run of white space that leaves a match
\* is taken
AnswerTailAt(s, i) ==
    LET j == SkipWs(s, i + 1)
        p == j + 3
        Eol(e) == e > Len(s) \/ s[e] = "\n"
        Run(q) == SkipWs(s, q) - q
        ends == {t \in (0..Run(p)) \X {0, 1} \X (0..Len(s)) :
                    /\ t[2] = 1 => /\ p + t[1] <= Len(s)
                                   /\ s[p + t[1]] = "."
                    /\ t[3] <= Run(p + t[1] + t[2])
                    /\ Eol(p + t[1] + t[2] + t[3])}
        Before(t, u) ==
            \/ t[1] > u[1]
            \/ t[1] = u[1] /\ t[2] > u[2]
            \/ t[1] = u[1] /\ t[2] = u[2] /\ t[3] >= u[3]
        best == CHOOSE t \in ends : \A u \in ends : Before(t, u)
    IN  IF /\ s[i] = "answer-word"
           /\ j + 2 <= Len(s)
           /\ s[j] = "(" /\ IsDigit(s[j + 1]) /\ s[j + 2] = ")"
           /\ ends # {}
        THEN p + best[1] + best[2] + best[3] - i ELSE 0

\* official-parser.cjs:158: every match is removed
RECURSIVE RemoveAnswerTails(_, _)
RemoveAnswerTails(s, i) ==
    LET hits == {j \in i..Len(s) : AnswerTailAt(s, j) > 0}
    IN  IF hits = {} THEN SubSeq(s, i, Len(s))
        ELSE LET p == CHOOSE j \in hits : \A m \in hits : j <= m
             IN  SubSeq(s, i, p - 1)
                     \o RemoveAnswerTails(s, p + AnswerTailAt(s, p))

\* official-parser.cjs:162-163: explanation.split(/\n\n+/)[0] || explanation
FirstParagraph(s) ==
    LET breaks == {i \in 1..(Len(s) - 1) : s[i] = "\n" /\ s[i + 1] = "\n"}
        first == IF breaks = {} THEN s
                 ELSE SubSeq(s, 1, (CHOOSE i \in breaks :
                                        \A m \in breaks : i <= m) - 1)
    IN  IF first = << >> THEN s ELSE first

\* improved-parser.cjs:568-607: the explanation extractFromSolution stores
\* for a block, None when it stores none
improvedExplanation(qNum, content) ==
    LET explanation == cleanExplanation(Trim(content))
        limited == IF Len(explanation) > MaxExplanationLength
                   THEN SubSeq(explanation, 1, MaxExplanationLength)
                            \o Ellipsis
                   ELSE explanation
    IN  IF qNum < 1 \/ qNum > 30 THEN None
        ELSE IF Len(limited) > MinExplanationLength THEN Some(limited)
        ELSE None

\* official-parser.cjs:148-172: the explanation extractExplanations stores
\* for a block, None when it stores none
officialExplanation(qNum, content) ==
    LET explanation == FirstParagraph(Trim(RemoveAnswerTails(content, 1)))
        limited == IF Len(explanation) > OfficialMaxLength
                   THEN SubSeq(explanation, 1, OfficialMaxLength) \o Ellipsis
                   ELSE explanation
    IN  IF Len(limited) > OfficialMinLength
        THEN Some(Trim(CollapseWs(limited)))
        ELSE None

\* a text of n characters without white space
PlainText(n) == << >> \o [k \in 1..n |-> "e"]

\* the blocks of the generated solution texts: texts at and around the
\* limits of both scripts, numbers at and around the range
SolutionTextBlocks ==
    { <<1, PlainText(MinExplanationLength)>>,
      <<1, PlainText(MinExplanationLength + 1)>>,
      <<30, PlainText(OfficialMinLength) \o <<"\n", " ">> \o PlainText(1)>>,
      <<30, PlainText(10) \o <<"\n", " ">> \o PlainText(OfficialMinLength - 11)>>,
      <<31, PlainText(OfficialMinLength + 1)>>,
      <<0, PlainText(OfficialMinLength + 1)>>,
      <<2, PlainText(MaxExplanationLength + 1)>>,
      <<2, PlainText(OfficialMaxLength) \o <<" ">> \o PlainText(5)>>,
      <<3, PlainText(OfficialMinLength + 2) \o <<"\n", "\n">>
              \o PlainText(4)
              \o <<" ", "answer-word", " ", "(", "2", ")", ".", "\n">>>> }

SolParked ==
    /\ solScript = "improved"
    /\ solText = << >>
    /\ explanations = EmptyMap
    /\ solQuestions = EmptyMap

SolInit ==
    /\ solScript \in {"improved", "official"}
    /\ solText = << >>
    /\ explanations = EmptyMap
    /\ solQuestions = EmptyMap

\* improved-parser.cjs:567-608: one iteration of the loop over the blocks
ImprovedBlock(qNum, content) ==
    /\ solScript = "improved" /\ Len(solText) < MaxBlocks
    /\ solText' = Append(solText, <<qNum, content>>)
    /\ LET question == solutionQuestion(qNum, content)
       IN  solQuestions' = IF question = None THEN solQuestions
                           ELSE Put(solQuestions, qNum, question[1])
    /\ LET explanation == improvedExplanation(qNum, content)
       IN  explanations' = IF explanation = None THEN explanations
                           ELSE Put(explanations, qNum, explanation[1])
    /\ UNCHANGED solScript
    /\ UNCHANGED notSolVars

\* official-parser.cjs:148-173: one iteration of the loop over the blocks
OfficialBlock(qNum, content) ==
    /\ solScript = "official" /\ Len(solText) < MaxBlocks
    /\ solText' = Append(solText, <<qNum, content>>)
    /\ LET explanation == officialExplanation(qNum, content)
       IN  explanations' = IF explanation = None THEN explanations
                           ELSE Put(explanations, qNum, explanation[1])
    /\ UNCHANGED <<solScript, solQuestions>>
    /\ UNCHANGED notSolVars

SolNext ==
    \/ \E b \in SolutionTextBlocks : ImprovedBlock(b[1], b[2])
    \/ \E b \in SolutionTextBlocks : OfficialBlock(b[1], b[2])

\* ------------------------------------------------------------------------
\* The session store (src/stores/sessionStore.ts). The state of the store
\* is the record store, its fields named as in SessionState; set({...}) is
\* [store EXCEPT ...]. Every handler is an operator from the store to the
\* store it leaves.
\* ------------------------------------------------------------------------
\* bound: number of questions of a session
MaxQuestions == 2

\* bound: number of toggleBookmark calls in flight
MaxCalls == 2

\* the ids toggled, flagged and answered
StoreQuestions == {"q1", "q2"}

\* sessionStore.ts:30-40
initialState ==
    [currentSession |-> None,
     currentQuestion |-> Null,
     currentSection |-> Null,
     sectionTimeRemaining |-> 0,
     answers |-> {},
     flaggedQuestions |-> {},
     bookmarkedQuestions |-> {},
     isPaused |-> FALSE,
     showExplanation |-> FALSE]

\* the questionIds of a session of n questions
QuestionIds(n) == SubSeq(<<"q1", "q2", "q3", "q4">>, 1, n)

\* Section.timeLimitMinutes * 60 of the sections of the model
TimeLimitSeconds == 3

\* sessionStore.ts:45-70
startTrainingSession(st, questionIds, sectionIds) ==
    [st EXCEPT !.currentSession =
                   Some([mode |-> "training", sectionIds |-> sectionIds,
                         questionIds |-> questionIds,
                         currentQuestionIndex |-> 0,
                         currentSectionIndex |-> 0, status |-> "in-progress"]),
               !.answers = {},
               !.flaggedQuestions = {},
               !.bookmarkedQuestions = {},
               !.isPaused = FALSE,
               !.showExplanation = FALSE]

\* sessionStore.ts:72-111
startSimulationSession(st, questionIds, sectionIds) ==
    [st EXCEPT !.currentSession =
                   Some([mode |-> "simulation", sectionIds |-> sectionIds,
                         questionIds |-> questionIds,
                         currentQuestionIndex |-> 0,
                         currentSectionIndex |-> 0, status |-> "in-progress"]),
               !.currentSection = sectionIds[1],
               !.sectionTimeRemaining = TimeLimitSeconds,
               !.answers = {},
               !.flaggedQuestions = {},
               !.bookmarkedQuestions = {},
               !.isPaused = FALSE,
               !.showExplanation = FALSE]

\* sessionStore.ts:113
setCurrentQuestion(st, question) == [st EXCEPT !.currentQuestion = question]

\* sessionStore.ts:115-118
setCurrentSection(st, section) ==
    [st EXCEPT !.currentSection = section,
               !.sectionTimeRemaining = IF section # Null THEN TimeLimitSeconds
                                        ELSE 0]

\* sessionStore.ts:120-143: the answers are kept as the set of answered ids
answerQuestion(st, questionId) ==
    IF st.currentSession = None THEN st
    ELSE [st EXCEPT !.answers = st.answers \cup {questionId}]

\* the handler adding the id whether or not it is flagged (a faulty variant)
toggleFlagAddOnly(st, questionId) ==
    [st EXCEPT !.flaggedQuestions = st.flaggedQuestions \cup {questionId}]

\* sessionStore.ts:145-156
toggleFlag(st, questionId) ==
    [st EXCEPT !.flaggedQuestions =
                   IF questionId \in st.flaggedQuestions
                   THEN st.flaggedQuestions \ {questionId}
                   ELSE st.flaggedQuestions \cup {questionId}]

Max(a, b) == IF a >= b THEN a ELSE b

\* the handler without the clamp (a faulty variant)
goToQuestionUnclamped(st, index) ==
    IF st.currentSession = None THEN st
    ELSE [st EXCEPT !.currentSession[1].currentQuestionIndex = index,
                    !.showExplanation = FALSE]

\* sessionStore.ts:174-187
goToQuestion(st, index) ==
    IF st.currentSession = None THEN st
    ELSE [st EXCEPT !.currentSession[1].currentQuestionIndex =
                        Max(0, Min(index, Len(st.currentSession[1].questionIds) - 1)),
                    !.showExplanation = FALSE]

\* sessionStore.ts:189-197
nextQuestion(st) ==
    IF st.currentSession = None THEN st
    ELSE IF st.currentSession[1].currentQuestionIndex + 1
               < Len(st.currentSession[1].questionIds)
    THEN goToQuestion(st, st.currentSession[1].currentQuestionIndex + 1)
    ELSE st

\* sessionStore.ts:199-207
prevQuestion(st) ==
    IF st.currentSession = None THEN st
    ELSE IF st.currentSession[1].currentQuestionIndex - 1 >= 0
    THEN goToQuestion(st, st.currentSession[1].currentQuestionIndex - 1)
    ELSE st

\* sessionStore.ts:209-222
nextSection(st) ==
    IF st.currentSession = None THEN st
    ELSE IF st.currentSession[1].currentSectionIndex + 1
               < Len(st.currentSession[1].sectionIds)
    THEN [st EXCEPT !.currentSession[1].currentSectionIndex = @ + 1]
    ELSE st

\* sessionStore.ts:224-226
setTimeRemaining(st, seconds) ==
    [st EXCEPT !.sectionTimeRemaining = Max(0, seconds)]

\* sessionStore.ts:228-230
togglePause(st) == [st EXCEPT !.isPaused = ~st.isPaused]

\* sessionStore.ts:232
setShowExplanation(st, show) == [st EXCEPT !.showExplanation = show]

\* the handler resetting to initialState alone (a faulty variant)
resetSessionAll(st) == initialState

\* sessionStore.ts:266-273
resetSession(st) ==
    [initialState EXCEPT !.bookmarkedQuestions = st.bookmarkedQuestions]

\* the mock of toggleBookmark of ../db in the store's tests: the new set of
\* the database and the value returned
toggleBookmarkInDB(db, questionId) ==
    IF questionId \in db
    THEN [db |-> db \ {questionId}, isNowBookmarked |-> FALSE]
    ELSE [db |-> db \cup {questionId}, isNowBookmarked |-> TRUE]

\* sessionStore.ts:165-171: toggleBookmark after the await; newBookmarked
\* is the copy taken before it
toggleBookmarkResume(st, newBookmarked, questionId, isNowBookmarked) ==
    [st EXCEPT !.bookmarkedQuestions =
                   IF isNowBookmarked THEN newBookmarked \cup {questionId}
                   ELSE newBookmarked \ {questionId}]

\* sessionStore.ts:288-291
loadBookmarks(st, db) == [st EXCEPT !.bookmarkedQuestions = db]

\* the names of the fields of the store that differ from initialState
NonInitial(st) == {f \in DOMAIN st : st[f] # initialState[f]}

\* the handler that ran last: its name, its argument, and what the claims
\* need of the state it started from
Op(name, arg, before) ==
    [op |-> name, arg |-> arg, before |-> before,
     isNowBookmarked |-> FALSE, alone |-> FALSE]

NoOp == Op("none", Null, {})

StoreParked ==
    /\ store = initialState
    /\ mockBookmarks = {}
    /\ calls = << >>
    /\ lastOp = NoOp

\* the store after construction; the database keeps the bookmarks of
\* earlier runs of the app
StoreInit ==
    /\ store = initialState
    /\ mockBookmarks \in {{}, {"q2"}}
    /\ calls = << >>
    /\ lastOp = NoOp

\* a call of a synchronous handler: one step, after is the store it leaves
Handler(name, arg, before, after) ==
    /\ store' = after
    /\ lastOp' = Op(name, arg, before)
    /\ UNCHANGED <<mockBookmarks, calls>>
    /\ UNCHANGED notStoreVars

\* sessionStore.ts:158-163: toggleBookmark up to its await: the copy of the
\* set is taken and the database is asked to toggle
\* (alone: no other call is in flight during this one; synced: the set and
\* the database agreed when the first of the calls now in flight started)
ToggleBookmarkCall(questionId) ==
    /\ Len(calls) < MaxCalls
    /\ LET r == toggleBookmarkInDB(mockBookmarks, questionId)
       IN  /\ mockBookmarks' = r.db
           /\ calls' = Append([i \in 1..Len(calls) |->
                                  [calls[i] EXCEPT !.alone = FALSE]],
                              [questionId |-> questionId,
                               newBookmarked |-> store.bookmarkedQuestions,
                               isNowBookmarked |-> r.isNowBookmarked,
                               alone |-> calls = << >>,
                               synced |-> IF calls = << >>
                                          THEN store.bookmarkedQuestions
                                                   = mockBookmarks
                                          ELSE calls[1].synced])
    /\ UNCHANGED <<store, lastOp>>
    /\ UNCHANGED notStoreVars

\* sessionStore.ts:165-171: one of the calls in flight resumes
ToggleBookmarkReturn(i) ==
    /\ i \in 1..Len(calls)
    /\ store' = toggleBookmarkResume(store, calls[i].newBookmarked,
                                     calls[i].questionId,
                                     calls[i].isNowBookmarked)
    /\ calls' = [j \in 1..(Len(calls) - 1) |->
                    IF j < i THEN calls[j] ELSE calls[j + 1]]
    /\ lastOp' = [op |-> "toggleBookmark", arg |-> calls[i].questionId,
                  before |-> calls[i].newBookmarked,
                  isNowBookmarked |-> calls[i].isNowBookmarked,
                  alone |-> calls[i].alone]
    /\ UNCHANGED mockBookmarks
    /\ UNCHANGED notStoreVars

\* the handlers of a session, without the bookmark toggles
SessionNext ==
    \/ \E n \in 0..MaxQuestions :
          Handler("startTrainingSession", n, {},
                  startTrainingSession(store, QuestionIds(n), <<"s1">>))
    \/ Handler("startSimulationSession", MaxQuestions, {},
               startSimulationSession(store, QuestionIds(MaxQuestions),
                                      <<"s1", "s2">>))
    \/ Handler("setCurrentQuestion", "q1", {}, setCurrentQuestion(store, "q1"))
    \/ Handler("setCurrentSection", "s1", {}, setCurrentSection(store, "s1"))
    \/ Handler("answerQuestion", "q1", {}, answerQuestion(store, "q1"))
    \/ \E questionId \in StoreQuestions :
          Handler("toggleFlag", questionId, store.flaggedQuestions,
                  toggleFlag(store, questionId))
    \/ \E index \in -1..(MaxQuestions + 1) :
          Handler("goToQuestion", index, {}, goToQuestion(store, index))
    \/ Handler("nextQuestion", Null, {}, nextQuestion(store))
    \/ Handler("prevQuestion", Null, {}, prevQuestion(store))
    \/ Handler("nextSection", Null, {}, nextSection(store))
    \/ Handler("setTimeRemaining", -5, {}, setTimeRemaining(store, -5))
    \/ Handler("togglePause", Null, {}, togglePause(store))
    \/ Handler("setShowExplanation", TRUE, {}, setShowExplanation(store, TRUE))
    \/ Handler("resetSession", Null, NonInitial(store), resetSession(store))
    \/ Handler("loadBookmarks", Null, {}, loadBookmarks(store, mockBookmarks))

\* the bookmark toggles, possibly overlapping, between session starts,
\* resets and loads
BookmarkNext ==
    \/ \E questionId \in StoreQuestions : ToggleBookmarkCall(questionId)
    \/ \E i \in 1..MaxCalls : ToggleBookmarkReturn(i)
    \/ Handler("startTrainingSession", 1, {},
               startTrainingSession(store, QuestionIds(1), <<"s1">>))
    \/ Handler("resetSession", Null, NonInitial(store), resetSession(store))
    \/ Handler("loadBookmarks", Null, {}, loadBookmarks(store, mockBookmarks))

\* ------------------------------------------------------------------------
\* Finishing a session: completeSession and abandonSession of the session
\* store (src/stores/sessionStore.ts:234-264) and the sessions table they
\* write with saveSession. A Session of the model has no id field; curId
\* follows the id of the session in store.currentSession.
\* ------------------------------------------------------------------------
\* bound: number of sessions started
MaxSessions == 2

\* bound: number of completeSession and abandonSession calls in flight
MaxFinishing == 2

\* the scores handed to completeSession
Scores == {0, 1}

\* the put of saveSession (part_002:101-103): the record stored under the
\* id is replaced
saveSession(table, id, session) == Put(table, id, session)

\* sessionStore.ts:238-243, completedSession; completedAt, the time of the
\* call, is left out
completedSessionOf(session, score) ==
    [k \in DOMAIN session \cup {"score"} |->
        CASE k = "status" -> "completed"
          [] k = "score" -> score
          [] OTHER -> session[k]]

\* sessionStore.ts:256-260, abandonedSession; completedAt is left out
abandonedSessionOf(session) == [session EXCEPT !.status = "abandoned"]

FinishParked ==
    /\ sessions = EmptyMap
    /\ curId = 0
    /\ finishing = << >>

FinishInit == FinishParked

\* sessionStore.ts:45-70: startTrainingSession with its saveSession(session)
\* of line 67, under a fresh id
StartSession ==
    /\ Cardinality(DOMAIN sessions) < MaxSessions
    /\ store' = startTrainingSession(store, QuestionIds(MaxQuestions),
                                     <<"s1">>)
    /\ curId' = Cardinality(DOMAIN sessions) + 1
    /\ sessions' = saveSession(sessions, curId', store'.currentSession[1])
    /\ lastOp' = Op("startTrainingSession", MaxQuestions, {})
    /\ UNCHANGED <<mockBookmarks, calls, finishing>>
    /\ UNCHANGED notStoreFinishVars

\* sessionStore.ts:234-245: completeSession up to its await
completeSession(score) ==
    /\ store.currentSession # None
    /\ Len(finishing) < MaxFinishing
    /\ LET completedSession ==
               completedSessionOf(store.currentSession[1], score)
       IN  /\ sessions' = saveSession(sessions, curId, completedSession)
           /\ finishing' = Append(finishing,
                                  [op |-> "completeSession", id |-> curId,
                                   session |-> completedSession])
    /\ UNCHANGED <<storeVars, curId>>
    /\ UNCHANGED notStoreFinishVars

\* sessionStore.ts:252-262: abandonSession up to its await
abandonSession ==
    /\ store.currentSession # None
    /\ Len(finishing) < MaxFinishing
    /\ LET abandonedSession == abandonedSessionOf(store.currentSession[1])
       IN  /\ sessions' = saveSession(sessions, curId, abandonedSession)
           /\ finishing' = Append(finishing,
                                  [op |-> "abandonSession", id |-> curId,
                                   session |-> abandonedSession])
    /\ UNCHANGED <<storeVars, curId>>
    /\ UNCHANGED notStoreFinishVars

\* sessionStore.ts:247-249 and 263: one of the calls in flight resumes:
\* completeSession sets currentSession to its completedSession,
\* abandonSession calls resetSession
FinishResume(i) ==
    /\ i \in 1..Len(finishing)
    /\ IF finishing[i].op = "completeSession"
       THEN /\ store' = [store EXCEPT
                            !.currentSession = Some(finishing[i].session)]
            /\ curId' = finishing[i].id
       ELSE /\ store' = resetSession(store)
            /\ curId' = 0
    /\ finishing' = [j \in 1..(Len(finishing) - 1) |->
                        IF j < i THEN finishing[j] ELSE finishing[j + 1]]
    /\ lastOp' = Op(finishing[i].op, finishing[i].id, {})
    /\ UNCHANGED <<mockBookmarks, calls, sessions>>
    /\ UNCHANGED notStoreFinishVars

\* starting, navigating and finishing sessions
FinishNext ==
    \/ StartSession
    \/ \E score \in Scores : completeSession(score)
    \/ abandonSession
    \/ \E i \in 1..MaxFinishing : FinishResume(i)
    \/ Handler("nextQuestion", Null, {}, nextQuestion(store))
    \/ Handler("prevQuestion", Null, {}, prevQuestion(store))
    \/ Handler("resetSession", Null, NonInitial(store), resetSession(store))

\* ------------------------------------------------------------------------
\* The session page (src/unnamed/part_003): the handlers of SessionPage on
\* the session store, the Timer it renders in simulation mode
\* (src/unnamed/part_005) and handleStartSimulation of SimulationPage.
\* ------------------------------------------------------------------------
\* bound: number of calls of the page that await the database at a time
MaxAwaiting == 1

\* the keys handleKeyDown looks at
Keys == {"ArrowLeft", "ArrowRight", "Enter", " "}

\* part_003:69-73: a question counts as answered when answers holds its id
selectedAnswer(st) ==
    st.currentSession[1].questionIds[
        st.currentSession[1].currentQuestionIndex + 1] \in st.answers

PageParked == remainingSeconds = 0

PageInit == remainingSeconds = 0

\* a handler of the page that calls synchronous handlers of the store
PageHandler(after) ==
    /\ store' = after
    /\ UNCHANGED <<mockBookmarks, calls, lastOp, finishVars>>
    /\ UNCHANGED notStoreFinishPageVars

\* part_003:81-111 with sessionStore.ts:234-245: handleComplete up to the
\* await in completeSession; every answer of the model is a correct one, so
\* score.raw.correct is the number of answers
handleComplete ==
    /\ store.currentSession # None
    /\ Len(finishing) < MaxAwaiting
    /\ LET completedSession ==
               completedSessionOf(store.currentSession[1],
                                  Cardinality(store.answers))
       IN  /\ sessions' = saveSession(sessions, curId, completedSession)
           /\ finishing' = Append(finishing,
                                  [op |-> "completeSession", id |-> curId,
                                   session |-> completedSession])
    /\ UNCHANGED <<storeVars, curId>>
    /\ UNCHANGED notStoreFinishPageVars

\* SimulationPage.tsx:15-20 with sessionStore.ts:72-111: the session is
\* started and saved, the page shows the Timer with the time of the first
\* section
handleStartSimulation ==
    /\ Cardinality(DOMAIN sessions) < MaxSessions
    /\ store' = startSimulationSession(store, QuestionIds(MaxQuestions),
                                       <<"s1", "s2">>)
    /\ curId' = Cardinality(DOMAIN sessions) + 1
    /\ sessions' = saveSession(sessions, curId', store'.currentSession[1])
    /\ lastOp' = Op("startSimulationSession", MaxQuestions, {})
    /\ remainingSeconds' = store'.sectionTimeRemaining
    /\ UNCHANGED <<mockBookmarks, calls, finishing>>
    /\ UNCHANGED notStoreFinishPageVars

\* part_003:132-147: handleSelectAnswer; answerQuestion sets answers before
\* its await
handleSelectAnswer ==
    /\ store.currentSession # None
    /\ PageHandler(answerQuestion(
               IF store.currentSession[1].mode = "training"
               THEN setShowExplanation(store, TRUE) ELSE store,
               store.currentSession[1].questionIds[
                   store.currentSession[1].currentQuestionIndex + 1]))
    /\ UNCHANGED remainingSeconds

\* part_003:150-166
handleNext ==
    /\ store.currentSession # None
    /\ ~(store.currentSession[1].mode = "training" /\ ~selectedAnswer(store))
    /\ IF store.currentSession[1].currentQuestionIndex
              >= Len(store.currentSession[1].questionIds) - 1
       THEN handleComplete
       ELSE PageHandler(nextQuestion(setShowExplanation(store, FALSE)))
    /\ UNCHANGED remainingSeconds

\* part_003:169-173
handlePrevious ==
    /\ store.currentSession # None
    /\ store.currentSession[1].mode = "training"
    /\ PageHandler(prevQuestion(setShowExplanation(store, FALSE)))
    /\ UNCHANGED remainingSeconds

\* part_003:176-179: handleExit up to the await in abandonSession
handleExit == Len(finishing) < MaxAwaiting /\ abandonSession

\* part_003:188-193
handleTimeUp ==
    /\ store.currentSession # None
    /\ store.currentSession[1].mode = "simulation"
    /\ handleComplete

\* part_003:197-223
handleKeyDown(key) ==
    /\ store.currentSession # None
    /\ CASE key = "ArrowLeft" ->
               /\ selectedAnswer(store)
                     \/ store.currentSession[1].mode = "simulation"
               /\ handleNext
         [] key = "ArrowRight" -> handlePrevious
         [] key = "Enter" ->
               /\ selectedAnswer(store) /\ store.showExplanation
               /\ handleNext
         [] key = " " ->
               /\ store.currentSession[1].mode = "simulation"
               /\ PageHandler(togglePause(store))
               /\ UNCHANGED remainingSeconds

\* part_005:50-66, the interval of the Timer: a second passes. Above zero
\* onTick hands the time to setTimeRemaining (part_003:182-184), whose
\* value comes back as initialSeconds; at zero onTimeUp is called.
TimerTick ==
    /\ store.currentSession # None
    /\ store.currentSession[1].mode = "simulation"
    /\ ~store.isPaused
    /\ remainingSeconds > 0
    /\ IF remainingSeconds - 1 <= 0
       THEN /\ remainingSeconds' = 0
            /\ handleTimeUp
       ELSE /\ remainingSeconds' = remainingSeconds - 1
            /\ PageHandler(setTimeRemaining(store, remainingSeconds - 1))

\* the events on the two pages
PageNext ==
    \/ StartSession
    \/ handleStartSimulation
    \/ handleSelectAnswer
    \/ handleNext
    \/ handlePrevious
    \/ handleExit
    \/ \E key \in Keys : handleKeyDown(key)
    \/ TimerTick
    \/ \E i \in 1..MaxAwaiting : FinishResume(i)

\* ------------------------------------------------------------------------
\* convertParsedExamToAppFormat: loading a parsed exam document
\* (src/services/sentry.ts:269-371). The documents are the ones the two
\* parser scripts write: their questions are the objects parseExam pushes.
\* ------------------------------------------------------------------------
\* bound: number of questions of the generated documents
MaxParsed == 3

\* the type of an English question with the first boundary one lower
\* (a faulty variant)
questionTypeBelowEight(pq) ==
    IF pq.sectionType = "quantitative" THEN "algebra"
    ELSE IF pq.sectionType = "verbal" THEN "sentence-completion"
    ELSE IF pq.sectionType = "english"
    THEN IF pq.questionNumber < 8 THEN "sentence-completion-english"
         ELSE IF pq.questionNumber <= 12 THEN "restatement"
         ELSE "reading-comprehension-english"
    ELSE "restatement"

\* sentry.ts:287-304
questionType(pq) ==
    IF pq.sectionType = "quantitative" THEN "algebra"
    ELSE IF pq.sectionType = "verbal" THEN "sentence-completion"
    ELSE IF pq.sectionType = "english"
    THEN IF pq.questionNumber <= 8 THEN "sentence-completion-english"
         ELSE IF pq.questionNumber <= 12 THEN "restatement"
         ELSE "reading-comprehension-english"
    ELSE "restatement"

\* sentry.ts:306-331: the question pushed on the list of its section key
ConvertedQuestion(data, pq) ==
    LET Field(f) == IF f \in DOMAIN pq THEN pq[f] ELSE << >>
        questionStem == IF Field("stem") # << >> THEN Field("stem")
                        ELSE Field("text")
        language == IF "language" \in DOMAIN pq THEN pq.language ELSE "undefined"
        isEnglish == language = "en" \/ pq.sectionType = "english"
        labels == IF isEnglish THEN englishLabels ELSE hebrewLabels
        correctAnswerIndex == pq.correctAnswer - 1
        String(n) == DigitChar(n)
    IN  [id |-> pq.id,
         sectionId |-> <<data.id, pq.sectionType, pq.sectionNumber>>,
         number |-> pq.questionNumber,
         type |-> questionType(pq),
         stem |-> questionStem,
         options |-> [idx \in DOMAIN pq.options |->
                        [label |-> IF pq.options[idx].label # ""
                                   THEN pq.options[idx].label
                                   ELSE IF idx \in DOMAIN labels THEN labels[idx]
                                   ELSE String(idx),
                         text |-> pq.options[idx].text]],
         correctAnswer |-> IF correctAnswerIndex + 1 \in DOMAIN labels
                           THEN labels[correctAnswerIndex + 1]
                           ELSE String(pq.correctAnswer),
         explanation |-> pq.explanation]

\* sentry.ts:271-280,333: sectionMap.get(key) after the loop over
\* data.questions, << >> when the key was never set; a key
\* `${sectionType}-${sectionNumber}` is the pair <<sectionType, sectionNumber>>
SectionMapGet(data, key) ==
    LET RECURSIVE PushedFrom(_)
        PushedFrom(i) ==
            IF i > Len(data.questions) THEN << >>
            ELSE LET pq == data.questions[i]
                 IN  (IF <<pq.sectionType, pq.sectionNumber>> = key
                      THEN <<ConvertedQuestion(data, pq)>> ELSE << >>)
                     \o PushedFrom(i + 1)
    IN  PushedFrom(1)

\* sentry.ts:336-358: the sections array
BuildSections(data) ==
    LET sectionTypeOrder == <<"quantitative", "verbal", "english">>
        keys == [k \in 1..6 |-> <<sectionTypeOrder[((k - 1) \div 2) + 1],
                                  ((k - 1) % 2) + 1>>]
        RECURSIVE SectionsFrom(_, _)
        SectionsFrom(k, built) ==
            IF k > 6 THEN built
            ELSE LET type == keys[k][1]
                     qs == SectionMapGet(data, keys[k])
                 IN  SectionsFrom(k + 1,
                           IF Len(qs) > 0
                           THEN Append(built,
                                  [id |-> <<data.id>> \o keys[k],
                                   examId |-> data.id,
                                   type |-> type,
                                   order |-> Len(built) + 1,
                                   timeLimitMinutes |->
                                       IF type = "quantitative" THEN 20
                                       ELSE IF type = "verbal" THEN 20 ELSE 30,
                                   questions |-> qs])
                           ELSE built)
    IN  SectionsFrom(1, << >>)

\* sentry.ts:269-371
convertParsedExamToAppFormat(data) ==
    [id |-> data.id, hebrewName |-> data.name, sections |-> BuildSections(data)]

\* ---- the generated documents: questions as improved-parser.cjs and
\* official-parser.cjs push them, answers as KeyedAnswer gives them
ParsedQuestions ==
    { MergedQuestions(sectionDefs[d], q, KeyedAnswer(q, d), None, None, None)[1] :
          d \in {5, 6}, q \in {8, 9, 12, 13} }
    \cup { MergedQuestions(sectionDefs[3], 1, 4, None, None, None)[1],
           MergedQuestions(sectionDefs[2], 2, 1, None, None, None)[1],
           OfficialQuestions(sectionDefs[1], 1, 1, None)[1],
           OfficialQuestions(sectionDefs[6], 9, 4, None)[1] }

ConverterParked ==
    /\ vpc = "idle"
    /\ parsedExam = [id |-> "season", name |-> "moed", questions |-> << >>]
    /\ appExam = None

ConverterInit ==
    /\ vpc = "document"
    /\ parsedExam = [id |-> "season", name |-> "moed", questions |-> << >>]
    /\ appExam = None

\* one more question in the document that will be fetched
ParsedQuestion(pq) ==
    /\ vpc = "document"
    /\ Len(parsedExam.questions) < MaxParsed
    /\ parsedExam' = [parsedExam EXCEPT !.questions = Append(@, pq)]
    /\ UNCHANGED <<vpc, appExam>>
    /\ UNCHANGED notConverterVars

\* sentry.ts:376-387: loadCompleteExamData on a document in the parsed format
LoadCompleteExamData ==
    /\ vpc = "document"
    /\ appExam' = Some(convertParsedExamToAppFormat(parsedExam))
    /\ vpc' = "converted"
    /\ UNCHANGED parsedExam
    /\ UNCHANGED notConverterVars

ConverterNext ==
    \/ \E pq \in ParsedQuestions : ParsedQuestion(pq)
    \/ LoadCompleteExamData

\* ------------------------------------------------------------------------
\* Exam loading at app start: the effect of App (src/unnamed/part_002) and
\* loadFromJSON, loadExams of the exam store (src/stores/examStore.ts)
\* ------------------------------------------------------------------------
\* bound: the history counter loadStarts stops counting here
MaxStarts == 4

\* src/services/sentry.ts:453-457
AVAILABLE_EXAMS == <<"spring-2025", "summer-2025", "fall-2025">>

\* examStore.ts:26-32; the three indexes follow from exams and are left out
examInitialState ==
    [exams |-> << >>, isLoaded |-> FALSE, isLoading |-> FALSE,
     loadError |-> "undefined"]

\* examStore.ts:37-63
loadExams(st, loaded) ==
    [st EXCEPT !.exams = loaded, !.isLoaded = TRUE, !.isLoading = FALSE,
               !.loadError = "undefined"]

\* what loadCompleteExamData resolves to (the format of the document,
\* sentry.ts:385-412) or throws (the message, sentry.ts:378-380)
FetchResults == {"parsed", "sample"}
FetchErrors == {"Failed to fetch", "Failed to load exam"}

\* part_002:25: the effect runs again after a render in which isLoaded or
\* isLoading differ from the render before
Due(old, new) ==
    effectDue \/ old.isLoaded # new.isLoaded \/ old.isLoading # new.isLoading

LoaderParked ==
    /\ lpc = "off"
    /\ examState = examInitialState
    /\ fetchIdx = 0
    /\ allExams = << >>
    /\ effectDue = FALSE
    /\ loadStarts = 0

\* the app is mounted: the effect is due
LoaderInit ==
    /\ lpc = "idle"
    /\ examState = examInitialState
    /\ fetchIdx = 0
    /\ allExams = << >>
    /\ effectDue = TRUE
    /\ loadStarts = 0

\* part_002:21-25 with examStore.ts:65-68: the effect runs, and calls
\* loadFromJSON when the store is neither loaded nor loading
AppEffect ==
    /\ lpc # "off" /\ effectDue
    /\ IF ~examState.isLoaded /\ ~examState.isLoading
       THEN /\ examState' = [examState EXCEPT !.isLoading = TRUE,
                                              !.loadError = "undefined"]
            /\ lpc' = "fetching"
            /\ fetchIdx' = 1
            /\ allExams' = << >>
            /\ effectDue' = TRUE
            /\ loadStarts' = IF loadStarts < MaxStarts THEN loadStarts + 1
                             ELSE loadStarts
       ELSE /\ effectDue' = FALSE
            /\ UNCHANGED <<lpc, examState, fetchIdx, allExams, loadStarts>>
    /\ UNCHANGED notLoaderVars

\* examStore.ts:69-73: the awaited loadCompleteExamData resolves; after the
\* last path loadExams installs the exams
FetchResolves(format) ==
    /\ lpc = "fetching"
    /\ LET pushed == Append(allExams, [id |-> AVAILABLE_EXAMS[fetchIdx],
                                       format |-> format])
       IN  IF fetchIdx < Len(AVAILABLE_EXAMS)
           THEN /\ allExams' = pushed
                /\ fetchIdx' = fetchIdx + 1
                /\ UNCHANGED <<lpc, examState, effectDue>>
           ELSE /\ examState' = loadExams(examState, pushed)
                /\ effectDue' = Due(examState, examState')
                /\ lpc' = "idle"
                /\ allExams' = << >>
                /\ fetchIdx' = 0
    /\ UNCHANGED loadStarts
    /\ UNCHANGED notLoaderVars

\* examStore.ts:74-77: the awaited loadCompleteExamData throws
FetchThrows(message) ==
    /\ lpc = "fetching"
    /\ examState' = [examState EXCEPT !.loadError = message,
                                      !.isLoaded = FALSE, !.isLoading = FALSE]
    /\ effectDue' = Due(examState, examState')
    /\ lpc' = "idle"
    /\ allExams' = << >>
    /\ fetchIdx' = 0
    /\ UNCHANGED loadStarts
    /\ UNCHANGED notLoaderVars

LoaderNext ==
    \/ AppEffect
    \/ \E format \in FetchResults : FetchResolves(format)
    \/ \E message \in FetchErrors : FetchThrows(message)

\* ------------------------------------------------------------------------
\* Specifications: one per component, the other components at rest
\* ------------------------------------------------------------------------
InitKey == KeyInit /\ CleanParked /\ SegParked /\ MergeParked /\ RunParked /\ ExtractParked /\ StoreParked /\ ConverterParked /\ LoaderParked /\ FinishParked /\ PageParked /\ SolParked

SpecKey == InitKey /\ [][KeyNext]_vars

InitClean == CleanInit /\ KeyParked /\ SegParked /\ MergeParked /\ RunParked /\ ExtractParked /\ StoreParked /\ ConverterParked /\ LoaderParked /\ FinishParked /\ PageParked /\ SolParked

SpecClean == InitClean /\ [][CleanNext]_vars

InitSeg == SegInit /\ KeyParked /\ CleanParked /\ MergeParked /\ RunParked /\ ExtractParked /\ StoreParked /\ ConverterParked /\ LoaderParked /\ FinishParked /\ PageParked /\ SolParked

SpecSeg == InitSeg /\ [][SegNext]_vars

InitMerge == MergeInit /\ KeyParked /\ CleanParked /\ SegParked /\ RunParked /\ ExtractParked /\ StoreParked /\ ConverterParked /\ LoaderParked /\ FinishParked /\ PageParked /\ SolParked

SpecMerge == InitMerge /\ [][MergeNext]_vars

InitRun == RunInit /\ KeyParked /\ CleanParked /\ SegParked /\ MergeParked /\ ExtractParked /\ StoreParked /\ ConverterParked /\ LoaderParked /\ FinishParked /\ PageParked /\ SolParked

SpecRun == InitRun /\ [][RunNext]_vars

InitExtract == ExtractInit /\ KeyParked /\ CleanParked /\ SegParked /\ MergeParked /\ RunParked /\ StoreParked /\ ConverterParked /\ LoaderParked /\ FinishParked /\ PageParked /\ SolParked

SpecExtract == InitExtract /\ [][ExtractNext]_vars

InitStore == StoreInit /\ KeyParked /\ CleanParked /\ SegParked /\ MergeParked /\ RunParked /\ ExtractParked /\ ConverterParked /\ LoaderParked /\ FinishParked /\ PageParked /\ SolParked

SpecSession == InitStore /\ [][SessionNext]_vars

SpecBookmarks == InitStore /\ [][BookmarkNext]_vars

InitConverter == ConverterInit /\ KeyParked /\ CleanParked /\ SegParked /\ MergeParked /\ RunParked /\ ExtractParked /\ StoreParked /\ LoaderParked /\ FinishParked /\ PageParked /\ SolParked

SpecConverter == InitConverter /\ [][ConverterNext]_vars

InitLoader == LoaderInit /\ KeyParked /\ CleanParked /\ SegParked /\ MergeParked /\ RunParked /\ ExtractParked /\ StoreParked /\ ConverterParked /\ FinishParked /\ PageParked /\ SolParked

\* every step of the loading that can be taken is taken in the end: the
\* effect runs after the render, the awaited fetch resolves or throws
SpecLoader == InitLoader /\ [][LoaderNext]_vars /\ WF_vars(LoaderNext)

InitFinish == FinishInit /\ KeyParked /\ CleanParked /\ SegParked /\ MergeParked /\ RunParked /\ ExtractParked /\ PageParked /\ SolParked /\ StoreInit /\ ConverterParked /\ LoaderParked

SpecFinish == InitFinish /\ [][FinishNext]_vars

InitPage == PageInit /\ KeyParked /\ CleanParked /\ SegParked /\ MergeParked /\ RunParked /\ ExtractParked /\ SolParked /\ StoreInit /\ ConverterParked /\ LoaderParked /\ FinishInit

SpecPage == InitPage /\ [][PageNext]_vars

InitSol == SolInit /\ KeyParked /\ CleanParked /\ SegParked /\ MergeParked /\ RunParked /\ ExtractParked /\ StoreParked /\ ConverterParked /\ LoaderParked /\ FinishParked /\ PageParked

SpecSol == InitSol /\ [][SolNext]_vars

\* ------------------------------------------------------------------------
\* Claims about parseAnswerKey
\* ------------------------------------------------------------------------
IsRun(S) == \E n \in 0..(MaxQ + 2) : S = 1..n

InRange(d) == d >= 1 /\ d <= 4

\* C1 (as stated): in the returned map every stored answer is in 1..4 and
\* the stored question numbers of every section are exactly 1..n for some n.
C1_AsStated ==
    kpc = "done" =>
        \A s \in DOMAIN answerKey :
            /\ \A q \in DOMAIN answerKey[s] : InRange(answerKey[s][q])
            /\ IsRun(DOMAIN answerKey[s])

\* C1 (amended): every stored answer is in 1..4, and the stored question
\* numbers of a section are exactly 1..n for some n unless saveAnswers
\* skipped a digit outside 1..4 for that section, which leaves a gap.
C1_KeyWellFormed ==
    \A s \in DOMAIN answerKey :
        /\ \A q \in DOMAIN answerKey[s] : InRange(answerKey[s][q])
        /\ s \notin dropped => IsRun(DOMAIN answerKey[s])

C1_Witness ==
    /\ kpc = "done"
    /\ \E s \in DOMAIN answerKey :
          s \notin dropped /\ DOMAIN answerKey[s] = 1..10

HistAllInRange == \A j \in 1..Len(hist.stream) : InRange(hist.stream[j])

HistZipped ==
    /\ currentSection # Null
    /\ DOMAIN answerKey[currentSection] = 1..hist.n
    /\ \A j \in 1..hist.n : answerKey[currentSection][j] = hist.stream[j]

\* C9 (as stated): a section whose sentinel row is "12...n", n >= 10, followed
\* by pure-digit lines of n digits in all, has exactly the entries 1..n,
\* entry j being the j-th digit.
C9_AsStated ==
    (hist.clean /\ hist.n >= 10 /\ Len(hist.stream) = hist.n) => HistZipped

\* C9 (amended): the same when each of the n digits is in 1..4.
C9_SentinelZip ==
    (hist.clean /\ hist.n >= 10 /\ Len(hist.stream) = hist.n /\ HistAllInRange)
        => HistZipped

\* the n digits came in several lines, the last of them just scanned
C9_Witness ==
    /\ hist.clean /\ hist.n = MaxQ /\ Len(hist.stream) = hist.n /\ HistAllInRange
    /\ IsDigitLine(line) /\ Len(line.digits) < hist.n
    /\ HistZipped

\* C10: at the end of the scan no collected digit is left unzipped: the
\* first min(k, n) digits of the stream are stored for the first min(k, n)
\* question numbers (those in 1..4), also when the text ends inside a section.
C10_Truncates ==
    (kpc = "done" /\ currentSection # Null /\ questionNumbers # None) =>
        \A j \in 1..Min(Len(questionNumbers[1]), Len(collectedAnswers)) :
            InRange(collectedAnswers[j]) =>
                /\ questionNumbers[1][j] \in DOMAIN answerKey[currentSection]
                /\ answerKey[currentSection][questionNumbers[1][j]]
                       = collectedAnswers[j]

\* the first of the six sections a line names in any of the spellings of
\* SECTION_VARIANTS, 0 when it names none
NamedSection(ln) ==
    LET hits == {k \in 1..Len(sections) :
                    \E v \in DOMAIN SECTION_VARIANTS(sections[k].pattern) :
                        SECTION_VARIANTS(sections[k].pattern)[v] \in ln.names}
    IN  IF hits = {} THEN 0 ELSE CHOOSE k \in hits : \A m \in hits : k <= m

\* C24: a line of the answer key that names one of the six sections in any
\* spelling, the garbled ones included, makes that section current, clears
\* the question numbers and the collected digits, and leaves the previous
\* section with its pending answers zipped in.
C24_HeaderResets ==
    [][ (kpc = "scan" /\ lineNo' = lineNo + 1 /\ NamedSection(line') # 0) =>
          /\ currentSection' = sections[NamedSection(line')].key
          /\ questionNumbers' = None
          /\ collectedAnswers' = << >>
          /\ (currentSection # Null /\ currentSection # currentSection') =>
                answerKey'[currentSection] = SaveAnswers(KeyState)[currentSection]
      ]_vars

\* C25: the line with the terminal marker ends the scan of the answer key
\* with the pending digits of the current section zipped onto its question
\* numbers, every digit in 1..4 stored; once the scan has ended no step
\* changes the answer key.
C25_TerminalStops ==
    [][ /\ (kpc = "scan" /\ lineNo' = lineNo + 1 /\ line'.term) =>
              /\ kpc' = "done"
              /\ (currentSection' # Null /\ questionNumbers' # None) =>
                    \A j \in 1..Min(Len(questionNumbers'[1]), Len(collectedAnswers')) :
                        collectedAnswers'[j] \in 1..4 =>
                            /\ questionNumbers'[1][j]
                                   \in DOMAIN answerKey'[currentSection']
                            /\ answerKey'[currentSection'][questionNumbers'[1][j]]
                                   = collectedAnswers'[j]
        /\ kpc = "done" => (kpc' = "done" /\ answerKey' = answerKey)
      ]_vars

\* the scan ended by the terminal marker while four digits were pending for a
\* sentinel row of ten numbers: the four are in the answer key
C25_Witness ==
    /\ kpc = "done" /\ line.term
    /\ currentSection # Null /\ questionNumbers # None
    /\ Len(questionNumbers[1]) = 10 /\ Len(collectedAnswers) = 4
    /\ \A j \in 1..4 : collectedAnswers[j] \in 1..4
    /\ DOMAIN answerKey[currentSection] = 1..4

\* a pure-digit line that is no sentinel row
IsAnswerRow(ln) ==
    /\ IsDigitLine(ln)
    /\ ~(Len(ln.digits) > 10 /\ StartsWith(ln.digits, <<1, 2, 3, 4, 5, 6, 7, 8, 9>>))

\* C26: inside a section with a decoded sentinel row, a pure-digit line is
\* added to the digit stream; as soon as the stream is at least as long as
\* the list of question numbers, digit j is stored for question j when it is
\* in 1..4, the entry of question j is left alone when it is not, and the
\* list and the stream are cleared; after that, and before any sentinel row,
\* a pure-digit line changes nothing.
C26_ZipAtSentinelLength ==
    [][ (kpc = "scan" /\ lineNo' = lineNo + 1 /\ IsAnswerRow(line')
           /\ currentSection # Null) =>
          LET stream == collectedAnswers \o line'.digits
              old == answerKey[currentSection]
              new == answerKey'[currentSection]
          IN  /\ currentSection' = currentSection
              /\ \A s \in DOMAIN answerKey \ {currentSection} :
                     answerKey'[s] = answerKey[s]
              /\ IF questionNumbers = None
                 THEN /\ answerKey' = answerKey
                      /\ questionNumbers' = None
                      /\ collectedAnswers' = collectedAnswers
                 ELSE IF Len(stream) < Len(questionNumbers[1])
                 THEN /\ answerKey' = answerKey
                      /\ questionNumbers' = questionNumbers
                      /\ collectedAnswers' = stream
                 ELSE /\ questionNumbers' = None
                      /\ collectedAnswers' = << >>
                      /\ \A j \in 1..Len(questionNumbers[1]) :
                             IF stream[j] \in 1..4
                             THEN j \in DOMAIN new /\ new[j] = stream[j]
                             ELSE (j \in DOMAIN new <=> j \in DOMAIN old)
                                    /\ (j \in DOMAIN old => new[j] = old[j])
                      /\ DOMAIN new \subseteq
                             DOMAIN old \cup (1..Len(questionNumbers[1]))
      ]_vars

\* a sentinel row of ten numbers, ten digits in two lines with a 7 and a 0
\* among them, and one more digit line: eight entries, none for the questions
\* of the 7 and the 0, and the last line ignored
C26_Witness ==
    /\ kpc = "scan" /\ currentSection # Null
    /\ hist.clean /\ hist.n = 10 /\ Len(hist.stream) > 10
    /\ IsAnswerRow(line)
    /\ questionNumbers = None /\ collectedAnswers = << >>
    /\ Cardinality(DOMAIN answerKey[currentSection]) = 8
    /\ \A j \in 1..10 :
           IF hist.stream[j] \in 1..4
           THEN j \in DOMAIN answerKey[currentSection]
                   /\ answerKey[currentSection][j] = hist.stream[j]
           ELSE j \notin DOMAIN answerKey[currentSection]

\* ------------------------------------------------------------------------
\* Claims about parseExam
\* ------------------------------------------------------------------------
Last(seq) == seq[Len(seq)]

DefOf(key) == CHOOSE i \in 1..Len(sectionDefs) : sectionDefs[i].key = key

KeyedPairs(key) ==
    {<<sec, q>> \in (DOMAIN key) \X MergeQNums : q \in DOMAIN key[sec]}

Merged == lastIn.qNum # 0 /\ allQuestions # << >>

\* C2: when parseExam is done the emitted questions are exactly the entries
\* of the answer key, one question per entry and none for a number the key
\* lacks, and the correctAnswer of each is the value the key holds for it.
C2_KeyAuthoritative ==
    mpc = "done" =>
        /\ Len(allQuestions) = Cardinality(KeyedPairs(mKey))
        /\ {allQuestions[i].id : i \in 1..Len(allQuestions)} = KeyedPairs(mKey)
        /\ \A i \in 1..Len(allQuestions) :
              LET q == allQuestions[i]
              IN  q.id \in KeyedPairs(mKey)
                    => q.correctAnswer = mKey[q.id[1]][q.id[2]]

\* C3: a keyed question with neither an exam block nor a solution block is
\* still emitted, with four options that carry the generated texts and
\* labels, the generated stem naming its number, and hasFullText = false.
C3_PlaceholderEmitted ==
    (script = "improved" /\ lastIn.qNum # 0
        /\ lastIn.exam = None /\ lastIn.sol = None) =>
        /\ allQuestions # << >>
        /\ LET q == Last(allQuestions)
               def == sectionDefs[DefOf(lastIn.key)]
               labels == IF def.lang = "he" THEN hebrewLabels ELSE englishLabels
           IN  /\ q.id = <<lastIn.key, lastIn.qNum>>
               /\ Len(q.options) = 4
               /\ \A i \in 1..4 :
                     /\ q.options[i].label = labels[i]
                     /\ q.options[i].text = PlaceholderOption(labels[i])
               /\ q.stem = PlaceholderStem(def, lastIn.qNum)
               /\ \E i \in 1..Len(q.stem) :
                     SubSeq(q.stem, i, i + Len(NumeralOf(lastIn.qNum)) - 1)
                         = NumeralOf(lastIn.qNum)
               /\ q.hasFullText = FALSE

\* the second keyed question of a section, an exam block existing for the
\* first one only and no solution block for the second
C3_Witness ==
    /\ script = "improved" /\ Len(allQuestions) = 2
    /\ lastIn.qNum = 2 /\ lastIn.exam = None /\ lastIn.sol = None
    /\ Last(allQuestions).hasFullText = FALSE
    /\ allQuestions[1].hasFullText = TRUE

\* C4: the explanation of every emitted question is non-empty: it is the
\* extracted explanation of the question when there is one and otherwise
\* the generated statement naming the label of the correct option.
C4_ExplanationPresent ==
    Merged =>
        LET q == Last(allQuestions)
            correct == mKey[lastIn.key][lastIn.qNum]
        IN  /\ q.explanation # << >>
            /\ q.explanation =
                 IF lastIn.explanation # None THEN lastIn.explanation[1]
                 ELSE SynthesizedExplanation(q.options[correct].label)

\* C5: hasFullText of an emitted question is true exactly when its stem is
\* not the generated one or at least two of the four extracted option texts
\* are non-empty.
C5_FlagIffGenuine ==
    (script = "improved" /\ Merged) =>
        LET q == Last(allQuestions)
            def == sectionDefs[DefOf(lastIn.key)]
            extracted == PickExtracted(lastIn.exam, lastIn.sol)
        IN  q.hasFullText <=>
              \/ q.stem # PlaceholderStem(def, lastIn.qNum)
              \/ (extracted # None /\ NonEmptyCount(extracted[1].options) >= 2)

\* the block C6 takes stem and options from: the exam block when it has a
\* non-empty field, else the solution block when there is one, else none
C6_Source(exam, sol) ==
    IF exam # None /\ (exam[1].stem # << >> \/ NonEmptyCount(exam[1].options) > 0)
    THEN exam
    ELSE sol

\* C6: stem and options of an emitted question come from the exam block when
\* that block has a non-empty stem or option, else from the solution block
\* when there is one, and are the generated ones only when neither applies.
C6_SourceOrder ==
    (script = "improved" /\ Merged) =>
        LET q == Last(allQuestions)
            def == sectionDefs[DefOf(lastIn.key)]
            labels == IF def.lang = "he" THEN hebrewLabels ELSE englishLabels
            source == C6_Source(lastIn.exam, lastIn.sol)
        IN  /\ q.stem = BuildStem(ExtractedStem(source), def, lastIn.qNum)
            /\ q.options = BuildOptions(source, labels)

\* the count the exam object holds for the section of def: improved-parser
\* writes one count per section type, official-parser one entry per section
WrittenCount(doc, def) ==
    IF script = "improved" THEN doc.sections[def.type].questions
    ELSE LET hits == {i \in 1..Len(doc.sections) :
                         /\ doc.sections[i].type = def.type
                         /\ doc.sections[i].section = def.section}
         IN  IF hits = {} THEN 0
             ELSE doc.sections[CHOOSE i \in hits : TRUE].questionCount

\* C13: the per-section counts of the exam object equal the counts got by
\* grouping the emitted questions by (sectionType, sectionNumber), and
\* totalQuestions is the number of emitted questions.
C13_CountsMatchGrouping ==
    mpc = "done" =>
        /\ examDoc[1].totalQuestions = Len(allQuestions)
        /\ \A i \in 1..Len(sectionDefs) :
              WrittenCount(examDoc[1], sectionDefs[i]) =
                  CountWhere(allQuestions,
                             LAMBDA q : /\ q.sectionType = sectionDefs[i].type
                                        /\ q.sectionNumber = sectionDefs[i].section)

\* ------------------------------------------------------------------------
\* Claims about the run
\* ------------------------------------------------------------------------
Listed(season) ==
    /\ indexFile # None
    /\ \E j \in 1..Len(indexFile[1].exams) : indexFile[1].exams[j].id = season

\* C11: for an exam text without the answer-key marker parseAnswerKey returns
\* the empty map and parseExam still returns the exam, with no question and
\* totalQuestions = 0; the run goes on to the other exams.
C11_MissingMarkerNonFatal ==
    /\ \A i \in 1..Len(runLog) :
          (runLog[i].file /\ ~runLog[i].marker) =>
              /\ runLog[i].emptyKey
              /\ runLog[i].exam # None
              /\ runLog[i].exam[1].totalQuestions = 0
              /\ runLog[i].exam[1].emitted = 0
    /\ rpc = "done" => Len(runLog) = Len(exams)

\* the first exam has no marker, the second one has three keyed questions
C11_Witness ==
    /\ rpc = "done"
    /\ runLog[1].file /\ ~runLog[1].marker
    /\ runLog[1].exam # None /\ runLog[1].exam[1].totalQuestions = 0
    /\ runLog[2].exam # None /\ runLog[2].exam[1].totalQuestions = 3
    /\ Listed(exams[1]) /\ Listed(exams[2])

\* C14: an exam whose text file is missing is skipped, and at the end of the
\* run every exam that has its file is parsed, written and listed in
\* index.json; without solution files every keyed question is still emitted.
C14_MissingInputSkipped ==
    /\ \A i \in 1..Len(runLog) :
          /\ ~runLog[i].file => runLog[i].exam = None
          /\ runLog[i].file =>
                /\ runLog[i].exam # None
                /\ runLog[i].season \in written
          /\ (runLog[i].file /\ runLog[i].noSolution) =>
                runLog[i].exam[1].emitted = runLog[i].keyed
    /\ rpc = "done" =>
          /\ Len(runLog) = Len(exams)
          /\ \A i \in 1..Len(runLog) : runLog[i].file => Listed(runLog[i].season)

\* the first exam has no file, the second has three keyed questions and no
\* solution file, the third has its file
C14_Witness ==
    /\ rpc = "done"
    /\ ~runLog[1].file
    /\ runLog[2].file /\ runLog[2].noSolution /\ runLog[2].keyed = 3
    /\ runLog[2].exam[1].emitted = 3
    /\ runLog[3].file /\ Listed(exams[3]) /\ ~Listed(exams[1])

\* ------------------------------------------------------------------------
\* Claims about the extractors
\* ------------------------------------------------------------------------
\* an options array of exactly four strings
FourStrings(o) ==
    /\ DOMAIN o = 1..4
    /\ \A i \in 1..4 : DOMAIN o[i] = 1..Len(o[i])

\* C12: the options of the question being collected, of every block stored
\* by extractHebrewSection, extractEnglishSection and the fallback of
\* extractFromSolution, and of every block handed to the merge, are exactly
\* four strings at every point of the scan: no write goes outside the
\* indices 1..4, and a slot without an option holds the empty string.
C12_FourOptionSlots ==
    /\ FourStrings(scan.options)
    /\ \A q \in DOMAIN scan.questions : FourStrings(scan.questions[q].options)
    /\ \A q \in DOMAIN blocks : FourStrings(blocks[q].options)

\* a block with one option found on a line of its own and three empty
\* slots is handed to the merge, after a line ")5(" was scanned too
C12_Witness ==
    /\ xpc = "merged" /\ xlang = "hebrew"
    /\ \E i \in 1..Len(xlines) : xlines[i] = <<"w", " ", ")", "5", "(">>
    /\ \E q \in DOMAIN blocks :
          /\ blocks[q].options[3] = <<"w">>
          /\ \A i \in {1, 2, 4} : blocks[q].options[i] = << >>

\* the question line of the specification's example
ExampleLine ==
    <<"1", "0", " ", ")", "1", "(", " ", "1", "2", " ", ")", "2", "(", " ",
      "1", "6", " ", ")", "3", "(", " ", "1", "8", " ", ")", "4", "(", " ",
      ".", "7">>

\* lines that add nothing to question 7: skipped lines and the question
\* lines of other numbers
OutsideQuestion7 ==
    { <<" ">>, <<"-", " ", "7", " ", "-">>, <<".", "8">>,
      <<"9", ".", " ", "a", " ", "b">>,
      <<"a", "b", "c", "d", "e", " ", ")", "1", "(", " ",
        "f", "g", "h", "i", "j", " ", ")", "2", "(", " ", ".", "3">> }

\* question 7 of the section consists of the example line alone
ExampleScanned ==
    /\ xlang = "hebrew"
    /\ \E i \in 1..Len(xlines) :
          /\ xlines[i] = ExampleLine
          /\ \A j \in (i + 1)..Len(xlines) : xlines[j] \in OutsideQuestion7

\* C15: when question 7 of a Hebrew section is the line
\* "10 )1( 12 )2( 16 )3( 18 )4( .7" and the key holds 7 -> 2, the merged
\* question 7 has the option texts "10", "12", "16", "18" in this order
\* under the ids 1..4, its correctAnswer is the id of the option "12", and
\* hasFullText is true.
C15_InlineRtlExample ==
    (xpc = "merged" /\ ExampleScanned
        /\ 7 \in DOMAIN xAnswers /\ xAnswers[7] = 2) =>
        /\ 7 \in DOMAIN merged
        /\ merged[7].questionNumber = 7
        /\ [i \in 1..4 |-> merged[7].options[i].text]
              = << <<"1", "0">>, <<"1", "2">>, <<"1", "6">>, <<"1", "8">> >>
        /\ \A i \in 1..4 : merged[7].options[i].id = i
        /\ \E i \in 1..4 : /\ merged[7].options[i].id = merged[7].correctAnswer
                            /\ merged[7].options[i].text = <<"1", "2">>
        /\ merged[7].hasFullText

\* the example line was followed by the question line of another number
C15_Witness ==
    /\ xpc = "merged" /\ ExampleScanned
    /\ 7 \in DOMAIN xAnswers /\ xAnswers[7] = 2
    /\ Len(xlines) >= 2 /\ xlines[Len(xlines)] = <<".", "8">>
    /\ merged[7].correctAnswer = 2

\* a line of a Hebrew section that is a question-number boundary: not blank,
\* not a page header or footer, and ending in ".N" or starting with "N. ",
\* N of one or two digits; Some of the number and the rest of the line
HebrewBoundary(raw) ==
    LET ln == Trim(raw)
        n == Len(ln)
        tail2 == n >= 3 /\ ln[n - 2] = "." /\ IsDigit(ln[n - 1]) /\ IsDigit(ln[n])
        tail1 == n >= 2 /\ ln[n - 1] = "." /\ IsDigit(ln[n])
        head2 == n >= 4 /\ IsDigit(ln[1]) /\ IsDigit(ln[2]) /\ ln[3] = "."
                    /\ IsWs(ln[4])
        head1 == n >= 3 /\ IsDigit(ln[1]) /\ ln[2] = "." /\ IsWs(ln[3])
    IN  IF ln = << >> \/ IsHeaderOrFooter(ln) THEN None
        ELSE IF tail2
        THEN Some([number |-> 10 * CharVal(ln[n - 1]) + CharVal(ln[n]),
                   rest |-> Trim(SubSeq(ln, 1, n - 3))])
        ELSE IF tail1
        THEN Some([number |-> CharVal(ln[n]), rest |-> Trim(SubSeq(ln, 1, n - 2))])
        ELSE IF head2
        THEN Some([number |-> 10 * CharVal(ln[1]) + CharVal(ln[2]),
                   rest |-> Trim(SubSeq(ln, 4, n))])
        ELSE IF head1
        THEN Some([number |-> CharVal(ln[1]), rest |-> Trim(SubSeq(ln, 3, n))])
        ELSE None

\* the step stores the block in progress under its own number and leaves
\* every other stored block alone
FlushesCurrent ==
    /\ DOMAIN scan'.questions
         = DOMAIN scan.questions \cup {scan.currentQ[i] : i \in DOMAIN scan.currentQ}
    /\ \A q \in DOMAIN scan.questions :
           scan.currentQ # Some(q) => scan'.questions[q] = scan.questions[q]

\* C21: in extractHebrewSection a boundary line first stores the block in
\* progress under its own number and then starts a new block whose stem lines
\* are the rest of that line; any other line leaves the stored blocks and the
\* current number alone and at most appends itself to the stem lines; the end
\* of the section stores the last block in progress, so that every number of
\* a boundary line has a block in the result.
C21_BoundaryFlush ==
    [][ xlang = "hebrew" =>
          LET lineStep == xpc = "scan" /\ Len(xlines') = Len(xlines) + 1
              raw == xlines'[Len(xlines')]
              b == HebrewBoundary(raw)
          IN  /\ (lineStep /\ b # None) =>
                    /\ FlushesCurrent
                    /\ scan'.currentQ = Some(b[1].number)
                    /\ scan'.stemLines = IF b[1].rest # << >> THEN <<b[1].rest>>
                                         ELSE << >>
              /\ (lineStep /\ b = None) =>
                    /\ scan'.questions = scan.questions
                    /\ scan'.currentQ = scan.currentQ
                    /\ \/ scan'.stemLines = scan.stemLines
                       \/ /\ scan.currentQ # None
                          /\ scan'.stemLines = Append(scan.stemLines, Trim(raw))
              /\ (xpc = "scan" /\ xpc' = "extracted") =>
                    /\ FlushesCurrent
                    /\ \A i \in 1..Len(xlines) :
                           HebrewBoundary(xlines[i]) # None =>
                               /\ HebrewBoundary(xlines[i])[1].number
                                      \in DOMAIN scan'.questions
                               /\ HebrewBoundary(xlines[i])[1].number
                                      \in DOMAIN blocks'
      ]_vars

\* the section ".8", "a b c d", "9. a b" scanned to its end: the blocks 8 and
\* 9, each with the stem lines that followed its own boundary
C21_Witness ==
    /\ xpc = "extracted" /\ xlang = "hebrew"
    /\ xlines = << <<".", "8">>, <<"a", " ", "b", " ", "c", " ", "d">>,
                   <<"9", ".", " ", "a", " ", "b">> >>
    /\ DOMAIN scan.questions = {8, 9}
    /\ scan.questions[8].stem = <<"a", " ", "b", " ", "c", " ", "d">>
    /\ scan.questions[9].stem = <<"a", " ", "b">>

\* the indices 1..4 a line names in an inline option sequence: "value )N("
\* when that names two or more, else "(N) value" or ")N( value" when that
\* names two or more, else "value (N)"; the empty set when fewer than two
InlineIndices(ln) ==
    LET Plain(c) == ~IsWs(c) /\ ~IsParen(c)
        ValueBefore(m) == \E j \in 1..(m - 1) :
                              /\ Plain(ln[j])
                              /\ \A k \in (j + 1)..(m - 1) : IsWs(ln[k])
        ValueAfter(m) == \E j \in (m + 3)..Len(ln) :
                             /\ Plain(ln[j])
                             /\ \A k \in (m + 3)..(j - 1) : ~IsParen(ln[k])
        TextBefore(m) == \E j \in 1..(m - 1) :
                             /\ Plain(ln[j])
                             /\ \A k \in (j + 1)..(m - 1) : ~IsParen(ln[k])
        rtl == {CharVal(ln[m + 1]) :
                   m \in {x \in 1..Len(ln) : MarkerAt(ln, x, "rtl") /\ ValueBefore(x)}}
        ltr == {CharVal(ln[m + 1]) :
                   m \in {x \in 1..Len(ln) : MarkerAt(ln, x, "any") /\ ValueAfter(x)}}
        mixed == {CharVal(ln[m + 1]) :
                     m \in {x \in 1..Len(ln) : MarkerAt(ln, x, "any") /\ TextBefore(x)}}
    IN  IF Cardinality(rtl) >= 2 THEN rtl
        ELSE IF Cardinality(ltr) >= 2 THEN ltr
        ELSE IF Cardinality(mixed) >= 2 THEN mixed
        ELSE {}

\* the slot of a standalone option line "value )N(" or "(N) value", 0 for
\* any other line
StandaloneSlot(ln) ==
    LET n == Len(ln)
    IN  IF n >= 4 /\ MarkerAt(ln, n - 2, "rtl")
              /\ \A k \in 1..(n - 3) : ~IsParen(ln[k])
        THEN CharVal(ln[n - 1])
        ELSE IF n >= 4 /\ MarkerAt(ln, 1, "ltr") THEN CharVal(ln[2])
        ELSE 0

Session(st) == st.currentSession[1]

LastIndex(st) == Len(Session(st).questionIds) - 1

HasQuestions(st) == st.currentSession # None /\ LastIndex(st) >= 0

\* C16: with an active session of n >= 1 questions every step leaves
\* currentQuestionIndex within 0..n-1; nextQuestion at the last index and
\* prevQuestion at index 0 leave it unchanged, and goToQuestion(i) sets it
\* to i clamped into 0..n-1.
C16_IndexInRange ==
    [][/\ HasQuestions(store') =>
              Session(store').currentQuestionIndex \in 0..LastIndex(store')
       /\ (HasQuestions(store) /\ lastOp'.op = "nextQuestion"
               /\ Session(store).currentQuestionIndex = LastIndex(store)) =>
              Session(store').currentQuestionIndex = LastIndex(store)
       /\ (HasQuestions(store) /\ lastOp'.op = "prevQuestion"
               /\ Session(store).currentQuestionIndex = 0) =>
              Session(store').currentQuestionIndex = 0
       /\ (HasQuestions(store) /\ lastOp'.op = "goToQuestion") =>
              Session(store').currentQuestionIndex =
                  (IF lastOp'.arg < 0 THEN 0
                   ELSE IF lastOp'.arg > LastIndex(store) THEN LastIndex(store)
                   ELSE lastOp'.arg)
      ]_vars

\* goToQuestion was called with an index behind the last question and left
\* the index at the last question
C16_Witness ==
    /\ lastOp.op = "goToQuestion" /\ lastOp.arg = MaxQuestions + 1
    /\ HasQuestions(store) /\ LastIndex(store) = MaxQuestions - 1
    /\ Session(store).currentQuestionIndex = LastIndex(store)

\* C17: resetSession leaves currentSession, currentQuestion and
\* currentSection null, answers and flaggedQuestions empty, isPaused and
\* showExplanation false and sectionTimeRemaining 0, and leaves
\* bookmarkedQuestions as it was, whatever the state before.
C17_ResetFrame ==
    [][lastOp'.op = "resetSession" =>
          /\ store'.currentSession = None
          /\ store'.currentQuestion = Null
          /\ store'.currentSection = Null
          /\ store'.answers = {}
          /\ store'.flaggedQuestions = {}
          /\ store'.isPaused = FALSE
          /\ store'.showExplanation = FALSE
          /\ store'.sectionTimeRemaining = 0
          /\ store'.bookmarkedQuestions = store.bookmarkedQuestions
      ]_vars

\* resetSession ran in a state in which every field of the store differed
\* from its initial value
C17_Witness ==
    /\ lastOp.op = "resetSession"
    /\ lastOp.before = DOMAIN initialState
    /\ store.bookmarkedQuestions # {}

\* C18: when a toggleBookmark call that overlapped no other call
\* completes, the question is in bookmarkedQuestions exactly when the
\* database reported it as now bookmarked and every other question is in
\* the set exactly when it was at the start of the call; when the call
\* completed before it was such a call for the same question, the
\* question is in the set exactly when it was before that first call.
C18_BookmarkToggle ==
    [][(Len(calls') < Len(calls) /\ lastOp'.alone) =>
          /\ (lastOp'.arg \in store'.bookmarkedQuestions)
                 <=> lastOp'.isNowBookmarked
          /\ \A o \in StoreQuestions \ {lastOp'.arg} :
                 (o \in store'.bookmarkedQuestions) <=> (o \in lastOp'.before)
          /\ (lastOp.op = "toggleBookmark" /\ lastOp.alone
                  /\ lastOp.arg = lastOp'.arg) =>
                 ((lastOp'.arg \in store'.bookmarkedQuestions)
                     <=> (lastOp'.arg \in lastOp.before))
      ]_vars

\* C28: when the last of a group of overlapping toggleBookmark calls
\* completes, and bookmarkedQuestions equalled the bookmarks of the database
\* when the first of them started, bookmarkedQuestions equals the bookmarks of
\* the database again.
C28_NoLostToggle ==
    [][(Len(calls) = 1 /\ Len(calls') = 0 /\ calls[1].synced) =>
          store'.bookmarkedQuestions = mockBookmarks'
      ]_vars

\* C19: toggleFlag(q) flips the membership of q in flaggedQuestions,
\* leaves the membership of every other question and every other field of
\* the store (and the database) as they were, and a second toggleFlag(q)
\* right after the first leaves the set as it was before the first.
C19_FlagToggle ==
    [][lastOp'.op = "toggleFlag" =>
          /\ (lastOp'.arg \in store'.flaggedQuestions)
                 <=> (lastOp'.arg \notin store.flaggedQuestions)
          /\ \A o \in StoreQuestions \ {lastOp'.arg} :
                 (o \in store'.flaggedQuestions) <=> (o \in store.flaggedQuestions)
          /\ \A f \in (DOMAIN store) \ {"flaggedQuestions"} : store'[f] = store[f]
          /\ mockBookmarks' = mockBookmarks
          /\ (lastOp.op = "toggleFlag" /\ lastOp.arg = lastOp'.arg) =>
                 store'.flaggedQuestions = lastOp.before
      ]_vars

\* toggleFlag("q1") removed q1 from a set that held both questions, in a
\* paused session
C19_Witness ==
    /\ lastOp.op = "toggleFlag" /\ lastOp.arg = "q1"
    /\ lastOp.before = {"q1", "q2"}
    /\ store.flaggedQuestions = {"q2"}
    /\ store.currentSession # None /\ store.isPaused

\* ------------------------------------------------------------------------
\* Claims about the exam loader
\* ------------------------------------------------------------------------
\* the questions of the document from an English section
EnglishParsed ==
    { i \in DOMAIN parsedExam.questions :
          parsedExam.questions[i].sectionType = "english" }

\* the indices of the sections of the returned exam that hold a question with
\* the given id
SectionsHolding(id) ==
    { k \in DOMAIN appExam[1].sections :
          \E j \in DOMAIN appExam[1].sections[k].questions :
              appExam[1].sections[k].questions[j].id = id }

\* C20: when a parsed exam document is loaded, every question of an English
\* section gets the type sentence-completion-english when its number is at
\* most 8, restatement when it is 9 to 12 and reading-comprehension-english
\* when it is 13 or more, and it is placed in the section of the returned exam
\* that matches its sectionType and sectionNumber, and in no other.
C20_EnglishTypesAndPlacement ==
    vpc = "converted" =>
        \A i \in EnglishParsed :
            LET pq == parsedExam.questions[i]
                n == pq.questionNumber
            IN  \E k \in DOMAIN appExam[1].sections :
                    LET s == appExam[1].sections[k]
                    IN  /\ s.type = pq.sectionType
                        /\ s.id = <<parsedExam.id, pq.sectionType, pq.sectionNumber>>
                        /\ SectionsHolding(pq.id) = {k}
                        /\ \A j \in DOMAIN s.questions :
                               s.questions[j].id = pq.id =>
                                   /\ s.questions[j].number = n
                                   /\ s.questions[j].sectionId = s.id
                                   /\ n <= 8 =>
                                        s.questions[j].type = "sentence-completion-english"
                                   /\ (n >= 9 /\ n <= 12) =>
                                        s.questions[j].type = "restatement"
                                   /\ n >= 13 =>
                                        s.questions[j].type = "reading-comprehension-english"

\* a loaded document with the English questions 8 and 13 of the first section
\* and 9 of the second, each typed and placed
C20_Witness ==
    /\ vpc = "converted"
    /\ { <<parsedExam.questions[i].sectionNumber, parsedExam.questions[i].questionNumber>> :
             i \in EnglishParsed } = { <<1, 8>>, <<1, 13>>, <<2, 9>> }
    /\ Len(appExam[1].sections) = 2
    /\ { appExam[1].sections[1].questions[j].type :
             j \in DOMAIN appExam[1].sections[1].questions }
           = { "sentence-completion-english", "reading-comprehension-english" }
    /\ appExam[1].sections[2].questions[1].type = "restatement"

\* the value the answer key gave for a question of the document:
\* improved-parser.cjs:798 writes it as it is, official-parser.cjs:246 writes
\* it minus one, next to correctAnswerLabel
KeyValue(pq) ==
    IF "correctAnswerLabel" \in DOMAIN pq THEN pq.correctAnswer + 1
    ELSE pq.correctAnswer

\* the question of the document that became question j of section k of the
\* returned exam: the j-th one with the section's type and number
DocQuestion(k, j) ==
    LET s == appExam[1].sections[k]
        Same(i) == <<parsedExam.id, parsedExam.questions[i].sectionType,
                     parsedExam.questions[i].sectionNumber>> = s.id
        i == CHOOSE x \in DOMAIN parsedExam.questions :
                 Same(x) /\ Cardinality({y \in 1..x : Same(y)}) = j
    IN  parsedExam.questions[i]

\* C27: for every question of a loaded document that a parser script wrote,
\* the converted correctAnswer is the label of the converted option at the
\* position the answer key named, one of the question's four option labels.
C27_CorrectAnswerIsKeyedLabel ==
    vpc = "converted" =>
        \A k \in DOMAIN appExam[1].sections :
            \A j \in DOMAIN appExam[1].sections[k].questions :
                LET q == appExam[1].sections[k].questions[j]
                IN  /\ DOMAIN q.options = 1..4
                    /\ q.correctAnswer = q.options[KeyValue(DocQuestion(k, j))].label

\* ------------------------------------------------------------------------
\* Claims about the exam loading at app start
\* ------------------------------------------------------------------------
LoadedState == examState.isLoaded /\ ~examState.isLoading

ErrorState ==
    /\ examState.loadError # "undefined"
    /\ ~examState.isLoaded /\ ~examState.isLoading
    /\ examState.exams = << >>

\* C29: from the start of the app the exam store reaches, and then stays in,
\* the loaded state or the error state, also when the fetch of an exam fails
\* every time.
C29_LoadSettles == <>[](LoadedState \/ ErrorState)

\* ------------------------------------------------------------------------
\* Claims about finishing a session
\* ------------------------------------------------------------------------
\* C30: a session stored as completed or abandoned keeps that status: no
\* step of the store writes its record with another status.
C30_StatusFinal ==
    [][\A id \in DOMAIN sessions :
          sessions[id].status \in {"completed", "abandoned"}
              => sessions'[id].status = sessions[id].status]_vars

\* a call of completeSession or abandonSession resumes in this step
Resumes == Len(finishing') < Len(finishing)

\* C31: when a call of completeSession or abandonSession resumes, a session
\* started during its await is still the current session, unchanged, and
\* the question index reached during the await of completeSession is kept.
C31_OnlyOwnSession ==
    [][Resumes =>
          /\ (curId # 0 /\ lastOp'.arg # curId)
                 => store'.currentSession = store.currentSession
          /\ (curId # 0 /\ lastOp'.arg = curId
                  /\ lastOp'.op = "completeSession")
                 => store'.currentSession[1].currentQuestionIndex
                        = store.currentSession[1].currentQuestionIndex]_vars

\* ------------------------------------------------------------------------
\* Claims about the session page
\* ------------------------------------------------------------------------
\* the Timer of the page reaches zero in this step
TimeIsUp == remainingSeconds > 0 /\ remainingSeconds' = 0

\* C32: when the timer of a section reaches zero and a section remains, the
\* session goes on to the next section and is not completed; it is
\* completed when the section was the last one.
C32_TimeUpAdvances ==
    [][TimeIsUp =>
          IF store.currentSession[1].currentSectionIndex + 1
                 < Len(store.currentSession[1].sectionIds)
          THEN /\ store'.currentSession[1].currentSectionIndex
                      = store.currentSession[1].currentSectionIndex + 1
               /\ finishing' = finishing
               /\ sessions' = sessions
          ELSE Len(finishing') = Len(finishing) + 1]_vars

\* the step stays within one session
SameSession ==
    store.currentSession # None /\ store'.currentSession # None
        /\ curId' = curId

QuestionIndex(st) == st.currentSession[1].currentQuestionIndex

\* completeSession is called in this step
Completes ==
    /\ Len(finishing') > Len(finishing)
    /\ finishing'[Len(finishing')].op = "completeSession"

\* the steps of a session in which no awaited call resumes keep to the
\* rules of C33
NavigationGuarded ==
    [][(SameSession /\ ~Resumes) =>
          /\ (store.currentSession[1].mode = "training"
                  /\ (QuestionIndex(store') > QuestionIndex(store)
                         \/ Completes))
                 => selectedAnswer(store)
          /\ store.currentSession[1].mode = "simulation"
                 => QuestionIndex(store') >= QuestionIndex(store)
          /\ (Completes /\ ~TimeIsUp)
                 => /\ QuestionIndex(store) = LastIndex(store)
                    /\ QuestionIndex(store') = QuestionIndex(store)]_vars

\* C33: within a session, in training mode the question index goes up, and
\* the session is completed, only when the current question is answered;
\* in simulation mode the index never goes down; a completion that is not
\* due to the timer happens at the last question and leaves the index.
C33_GuardedNavigation ==
    [][SameSession =>
          /\ (store.currentSession[1].mode = "training"
                  /\ (QuestionIndex(store') > QuestionIndex(store)
                         \/ Completes))
                 => selectedAnswer(store)
          /\ store.currentSession[1].mode = "simulation"
                 => QuestionIndex(store') >= QuestionIndex(store)
          /\ (Completes /\ ~TimeIsUp)
                 => /\ QuestionIndex(store) = LastIndex(store)
                    /\ QuestionIndex(store') = QuestionIndex(store)]_vars

\* ------------------------------------------------------------------------
\* Further claims about parseAnswerKey
\* ------------------------------------------------------------------------
\* C34: an entry of the answer key, once stored, stays in it with its value
\* through every later step of the scan, a second header line of its
\* section included.
C34_KeyOnlyGrows ==
    [][\A sec \in DOMAIN answerKey : \A n \in DOMAIN answerKey[sec] :
          /\ sec \in DOMAIN answerKey'
          /\ n \in DOMAIN answerKey'[sec]
          /\ answerKey'[sec][n] = answerKey[sec][n]]_vars

\* ------------------------------------------------------------------------
\* Further claims about parseExam
\* ------------------------------------------------------------------------
\* the place of the section of a question in sectionDefs
DefRank(q) ==
    CHOOSE k \in 1..Len(sectionDefs) :
        /\ sectionDefs[k].type = q.sectionType
        /\ sectionDefs[k].section = q.sectionNumber

\* the sections in the order of sectionDefs, the numbers of a section
\* strictly ascending
InCanonicalOrder(questions) ==
    \A i, j \in 1..Len(questions) :
        i < j => \/ DefRank(questions[i]) < DefRank(questions[j])
                 \/ /\ DefRank(questions[i]) = DefRank(questions[j])
                    /\ questions[i].questionNumber
                           < questions[j].questionNumber

\* C35: the questions pushed so far, and the questions of the exam object
\* built from them, are grouped by section in the order verbal-1, verbal-2,
\* quantitative-1, quantitative-2, english-1, english-2 and strictly
\* ascending by questionNumber within a section.
C35_CanonicalOrder ==
    /\ InCanonicalOrder(allQuestions)
    /\ examDoc # None => InCanonicalOrder(examDoc[1].questions)

C35_Witness ==
    /\ examDoc # None
    /\ Len(examDoc[1].questions) = 2
    /\ DefRank(examDoc[1].questions[1]) = DefRank(examDoc[1].questions[2])
    /\ examDoc[1].questions[1].questionNumber = 1
    /\ examDoc[1].questions[2].questionNumber = 2

\* ------------------------------------------------------------------------
\* Claims about the solution extractors
\* ------------------------------------------------------------------------
\* the numbers under which the extractor has stored something
Produced == (DOMAIN explanations) \cup (DOMAIN solQuestions)

\* extractFromSolution alone keeps to the range 1..30
ImprovedInRange == solScript = "improved" => Produced \subseteq 1..30

\* C36: the solution extractor stores explanations and fallback stems only
\* under block numbers from 1 to 30; a block with a number outside that
\* range leaves the output as it is.
C36_BlocksInRange ==
    [][/\ Produced' \subseteq 1..30
       /\ (Len(solText') > Len(solText)
              /\ solText'[Len(solText')][1] \notin 1..30)
             => /\ explanations' = explanations
                /\ solQuestions' = solQuestions]_vars

\* the limits of the script that runs
MinLength == IF solScript = "improved" THEN MinExplanationLength
             ELSE OfficialMinLength

MaxLength == IF solScript = "improved" THEN MaxExplanationLength
             ELSE OfficialMaxLength

WithinLimits(e) ==
    /\ Len(e) > MinLength
    /\ Len(e) <= MaxLength + 3
    /\ Len(e) > MaxLength => /\ Len(e) = MaxLength + 3
                             /\ SubSeq(e, MaxLength + 1, MaxLength + 3)
                                    = Ellipsis

\* extractFromSolution alone keeps to its limits
ImprovedWithinLimits ==
    solScript = "improved"
        => \A n \in DOMAIN explanations : WithinLimits(explanations[n])

\* C37: every stored explanation is longer than the minimum length and at
\* most the maximum length plus three characters; one over the maximum is
\* the first maximum-length characters followed by "...".
C37_LengthLimits ==
    \A n \in DOMAIN explanations : WithinLimits(explanations[n])

\* ------------------------------------------------------------------------
\* Further claims about the section boundaries
\* ------------------------------------------------------------------------
\* the offsets at which a spelling of the marker occurs in the text
Occurrences(txt, marker) ==
    {OffsetOf(txt, k) : k \in {m \in 1..Len(txt) :
        \E v \in 1..Len(SECTION_VARIANTS(marker)) :
            txt[m] = SECTION_VARIANTS(marker)[v]}}

\* the offsets at which the landmark phrase occurs, from an offset on
LandmarksFrom(txt, from) ==
    {OffsetOf(txt, k) : k \in {m \in 1..Len(txt) :
        txt[m] = Landmark /\ OffsetOf(txt, m) >= from}}

Least(S) == CHOOSE x \in S : \A y \in S : x <= y

\* the cut-off with the landmark phrase looked for in the whole text
CutOffAnywhere(txt) ==
    IF LandmarksFrom(txt, 0) = {} THEN TocSkip
    ELSE Least(LandmarksFrom(txt, 0))

\* the cut-off with the landmark phrase looked for from the fixed offset on
CutOff(txt) ==
    IF LandmarksFrom(txt, TocSkip) = {} THEN TocSkip
    ELSE Least(LandmarksFrom(txt, TocSkip))

\* the section starts at the earliest occurrence of its marker at or after
\* the cut-off and is not found when there is none
StartsAtEarliest(k, cutOff) ==
    LET after == {o \in Occurrences(examText, SECTION_ORDER[k]) : o >= cutOff}
    IN  IF after = {} THEN ~boundary[k].found
        ELSE boundary[k].found /\ boundary[k].start = Least(after)

\* C38 (as stated): the start of a section is the earliest occurrence of a
\* spelling of its marker at or after the cut-off, the cut-off being the
\* position of the landmark phrase when the text has it and 1000
\* otherwise; without such an occurrence the section is not found.
C38_AsStated ==
    \A k \in DOMAIN boundary : StartsAtEarliest(k, CutOffAnywhere(examText))

\* C38 (amended): the same with the cut-off at the first landmark phrase at
\* or after offset 1000, and at 1000 when there is none from there on; a
\* landmark phrase within the first 1000 characters does not count.
C38_EarliestAfterCutOff ==
    \A k \in DOMAIN boundary : StartsAtEarliest(k, CutOff(examText))

\* a section found behind a landmark phrase, with an occurrence of its
\* marker in front of the cut-off passed over, and a section with two
\* spellings found
C38_Witness ==
    /\ spc = "done"
    /\ CutOff(examText) > TocSkip
    /\ \E k \in DOMAIN boundary :
          /\ boundary[k].found
          /\ \E o \in Occurrences(examText, SECTION_ORDER[k]) :
                o < CutOff(examText)
    /\ boundary[3].found

====
